---- MODULE Spec2Model ----
(***************************************************************************)
(* Contact-management backend (FastAPI / SQLAlchemy / Redis / python-jose). *)
(* The module models these parts of the program as state machines:         *)
(*   - the token engine and identity resolution (AuthService,              *)
(*     get_current_user)                          -> SpecToken             *)
(*   - signup (UserService.create_user)           -> SpecSignup            *)
(*   - login (AuthService.login_user)             -> SpecLogin             *)
(*   - email verification (auth_router)           -> SpecVerify            *)
(*   - password reset (auth_router)               -> SpecReset             *)
(*   - the role gate and the avatar update (user_router) -> SpecRole       *)
(*   - the per-user contact store (ContactService / ContactRepository)     *)
(*                  -> SpecContact, SpecContactCreate, SpecContactRace,    *)
(*                     SpecContactUpdate, SpecContactDelete,               *)
(*                     SpecContactList, SpecBirthday                       *)
(*   - the verification mail scheduled by signup  -> SpecSignupMail        *)
(*   - identity resolution next to logins and profile changes, and with    *)
(*     an unreachable cache                -> SpecStale, SpecCacheDown     *)
(*   - accounts from signup to identity resolution, the cache next to the  *)
(*     user mutations, the own profile                                     *)
(*                      -> SpecAccount, SpecCacheSource, SpecProfile       *)
(*   - updates of a contact's email               -> SpecContactEmail      *)
(* Time is counted in minutes.                                             *)
(***************************************************************************)
EXTENDS Integers, FiniteSets, Sequences, TLC

VARIABLES
    now,        \* wall clock (datetime.now / func.now()), in minutes
    adv,        \* number of clock advances taken so far (bounds the run)
    users,      \* rows of table "users"
    nextUid,    \* next value of the users.id sequence
    mails,      \* background tasks scheduled with background_tasks.add_task, not yet run
    sreq,       \* signup requests in flight: position in UserService.create_user
    lreq,       \* login requests in flight: position in AuthService.login_user
    alast,      \* the last finished account operation of auth_router / user_router
    cache,      \* redis: key user:<email> -> value and expiry
    tokens,     \* the JWTs the clients hold, each with the create_*_token call it is from
    dec,        \* the last call of a decode_*_token function and its result
    gcu,        \* get_current_user requests in flight
    contacts,   \* rows of table "contacts"
    nextCid,    \* next value of the contacts.id sequence
    creq,       \* create-contact requests in flight
    last        \* the last finished contact operation and its response

vars == <<now, adv, users, nextUid, mails, sreq, lreq, alast, cache, tokens, dec, gcu,
          contacts, nextCid, creq, last>>

authVars    == <<users, nextUid, mails, sreq, lreq, alast>>
tokenVars   == <<cache, tokens, dec, gcu>>
contactVars == <<contacts, nextCid, creq, last>>

----------------------------------------------------------------------------
(* Bounds of the model *)

MaxAdvance == 2
MaxCid == 2
MaxCreate == 3
MaxMails == 1
MaxInbox == 1

(* Program constants *)

ACCESS_TOKEN_EXPIRE_MINUTES == 30
REFRESH_TOKEN_EXPIRE_DAYS == 7
EMAIL_TOKEN_EXPIRE_HOURS == 48
PASSWORD_RESET_TOKEN_EXPIRE_MINUTES == 15
CACHE_TTL_SECONDS == 900

Minutes(m) == m
Hours(h) == h * 60
Days(d) == d * 24 * 60
Seconds(s) == s \div 60

(* Input universes *)

None == "None"
Emails == {"a@x.io", "b@x.io", "c@x.io"}
Usernames == {"ann", "bob", "cat"}
Passwords == {"pw1"}
Salts == {"s1"}
Scopes == {"access_token", "refresh_token", "email_verification", "password_reset"}
TimeSteps == {1, Minutes(PASSWORD_RESET_TOKEN_EXPIRE_MINUTES),
              Minutes(ACCESS_TOKEN_EXPIRE_MINUTES),
              Hours(EMAIL_TOKEN_EXPIRE_HOURS), Days(REFRESH_TOKEN_EXPIRE_DAYS)}
\* a key without expiry (redis TTL -1)
NoTTL == 0 - 1

\* the data dict handed to the create_*_token functions: {"sub": email} or no "sub"
TokenData == [sub : {"a@x.io", "c@x.io", None}]
\* expires_delta: Optional[timedelta]; given = FALSE is None
Deltas == {[given |-> FALSE, minutes |-> 0]} \cup
          [given : {TRUE}, minutes : {0, 5}]

GProcs == {"g1"}
LProcs == {"l1"}
SProcs == {"s1", "s2"}
CProcs == {"c1", "c2"}

----------------------------------------------------------------------------
(* Clock *)

Advance(d) ==
    /\ adv < MaxAdvance
    /\ now' = now + d
    /\ adv' = adv + 1
    /\ UNCHANGED <<authVars, tokenVars, contactVars>>

----------------------------------------------------------------------------
(* Token engine: AuthService.create_*_token / decode_*_token *)

\* a token without the iat claim
NoIat == 0 - 1
NoToken == [sub |-> None, scope |-> "none", exp |-> 0, iat |-> NoIat, sig |-> "none"]

\* jwt.encode(to_encode, JWT_SECRET_KEY): the claims, signed with the program's key
JwtEncode(sub, scope, exp, iat) ==
    [sub |-> sub, scope |-> scope, exp |-> exp, iat |-> iat, sig |-> "ok"]

\* Python truthiness of an Optional[timedelta]: None and timedelta(0) are false
TruthyDelta(delta) == delta.given /\ delta.minutes # 0

AccessExpire(delta, t) ==
    IF TruthyDelta(delta)
    THEN t + delta.minutes
    ELSE t + Minutes(ACCESS_TOKEN_EXPIRE_MINUTES)

create_access_token(data, delta, t) ==
    JwtEncode(data.sub, "access_token", AccessExpire(delta, t), t)

create_refresh_token(data, t) ==
    JwtEncode(data.sub, "refresh_token", t + Days(REFRESH_TOKEN_EXPIRE_DAYS), t)

create_email_token(data, t) ==
    JwtEncode(data.sub, "email_verification", t + Hours(EMAIL_TOKEN_EXPIRE_HOURS), NoIat)

create_password_reset_token(data, t) ==
    JwtEncode(data.sub, "password_reset",
              t + Minutes(PASSWORD_RESET_TOKEN_EXPIRE_MINUTES), t)

\* jose.jwt.decode: raises JWTError on a bad signature and on exp < now
JwtDecodes(token, t) == token.sig = "ok" /\ ~(token.exp < t)

Ok(email) == [status |-> 200, detail |-> "", email |-> email]
Err(status, detail) == [status |-> status, detail |-> detail, email |-> None]

\* decode_refresh_token without its scope test
decode_refresh_token_AnyScope(token, t) ==
    IF ~JwtDecodes(token, t)
    THEN Err(401, "Could not validate credentials")
    ELSE IF token.sub = None
         THEN Err(401, "Could not validate credentials")
         ELSE Ok(token.sub)

decode_refresh_token(token, t) ==
    IF ~JwtDecodes(token, t)
    THEN Err(401, "Could not validate credentials")
    ELSE IF token.scope = "refresh_token"
         THEN IF token.sub = None
              THEN Err(401, "Could not validate credentials")
              ELSE Ok(token.sub)
         ELSE Err(401, "Invalid scope for token")

decode_email_token(token, t) ==
    IF ~JwtDecodes(token, t)
    THEN Err(422, "Invalid token for email verification")
    ELSE IF token.scope = "email_verification"
         THEN IF token.sub = None
              THEN Err(401, "Invalid token for email verification")
              ELSE Ok(token.sub)
         ELSE Err(401, "Invalid scope for token")

decode_password_reset_token(token, t) ==
    IF ~JwtDecodes(token, t)
    THEN Err(422, "Invalid or expired token for password reset")
    ELSE IF token.scope = "password_reset"
         THEN IF token.sub = None
              THEN Err(422, "Invalid token: missing subject")
              ELSE Ok(token.sub)
         ELSE Err(401, "Invalid scope for token")

\* the access-token check without its scope test
DecodeAccess_AnyScope(token, t) ==
    IF ~JwtDecodes(token, t)
    THEN Err(401, "Could not validate credentials")
    ELSE IF token.sub = None
         THEN Err(401, "Could not validate credentials")
         ELSE Ok(token.sub)

\* the access-token check at the head of get_current_user
DecodeAccess(token, t) ==
    IF ~JwtDecodes(token, t)
    THEN Err(401, "Could not validate credentials")
    ELSE IF token.scope # "access_token"
         THEN Err(401, "Could not validate credentials")
         ELSE IF token.sub = None
              THEN Err(401, "Could not validate credentials")
              ELSE Ok(token.sub)

\* what a client can present: an issued token, or one whose signature does not verify
Tamper(token) == [token EXCEPT !.sig = "bad"]
Issued == {i.tok : i \in tokens}
Presentable == Issued \cup {Tamper(k) : k \in Issued}

NoDelta == [given |-> FALSE, minutes |-> 0]
NoDecode == [fn |-> "none", tok |-> NoToken, late |-> FALSE, res |-> Err(0, "")]

\* one client, which asks for a token once and presents it from then on
Issue(fn, delta, tok) ==
    /\ tokens = {}
    /\ tokens' = {[fn |-> fn, at |-> now, delta |-> delta, tok |-> tok]}
    /\ UNCHANGED <<now, adv, authVars, cache, dec, gcu, contactVars>>

CreateAccessToken(data, delta) ==
    Issue("create_access_token", delta, create_access_token(data, delta, now))

CreateRefreshToken(data) ==
    Issue("create_refresh_token", NoDelta, create_refresh_token(data, now))

CreateEmailToken(data) ==
    Issue("create_email_token", NoDelta, create_email_token(data, now))

CreatePasswordResetToken(data) ==
    Issue("create_password_reset_token", NoDelta,
          create_password_reset_token(data, now))

\* late: the call came after the token's exp
Decoded(fn, tok, res) ==
    /\ dec' = [fn |-> fn, tok |-> tok, late |-> (tok.exp < now), res |-> res]
    /\ UNCHANGED <<now, adv, authVars, cache, tokens, gcu, contactVars>>

DecodeRefreshToken(tok) ==
    Decoded("decode_refresh_token", tok, decode_refresh_token(tok, now))

DecodeEmailToken(tok) ==
    Decoded("decode_email_token", tok, decode_email_token(tok, now))

DecodePasswordResetToken(tok) ==
    Decoded("decode_password_reset_token", tok, decode_password_reset_token(tok, now))

----------------------------------------------------------------------------
(* User store: UserRepository over table "users" *)

NoAvatar == [kind |-> "none", of |-> None]
\* Gravatar(email).get_image(): a URL derived from the email
Gravatar(email) == [kind |-> "gravatar", of |-> email]

\* pwd_context.hash: bcrypt of the password under a fresh salt
hash_password(password, salt) ==
    [alg |-> "bcrypt", salt |-> salt, digest |-> <<salt, password>>]

\* pwd_context.verify
verify_password(plain, hashed) == hashed.digest = <<hashed.salt, plain>>

\* select(User).where(attr == value) ... scalar_one_or_none(): {} is None
get_user_by_email(rows, email) == {u \in rows : u.email = email}
get_user_by_username(rows, username) == {u \in rows : u.username = username}

\* a response model that lets the password hash through
UserResponse_WithHash(user) ==
    [id |-> user.id, username |-> user.username, email |-> user.email,
     avatar_url |-> user.avatar_url, created_at |-> user.created_at,
     hashed_password |-> user.hashed_password]

\* UserResponse (response_model, from_attributes): the fields of the schema, read
\* from the row
UserResponse(user) ==
    [id |-> user.id, username |-> user.username, email |-> user.email,
     avatar_url |-> user.avatar_url, created_at |-> user.created_at]

\* UserRepository.update_avatar_url: sets avatar_url of the user with that email;
\* a written row gets updated_at = now (onupdate)
update_avatar_url(rows, email, url, t) ==
    {IF u.email = email /\ u.avatar_url # url
     THEN [u EXCEPT !.avatar_url = url, !.updated_at = t]
     ELSE u : u \in rows}

\* User(username, email, hashed_password, avatar_url) with the column defaults
NewUser(id, body, hashed, avatar, t) ==
    [id |-> id, username |-> body.username, email |-> body.email,
     hashed_password |-> hashed, avatar_url |-> avatar,
     verified |-> FALSE, role |-> "user", created_at |-> t, updated_at |-> t]

\* a users table without unique indexes
UserUniqueViolation_Never(rows, row) == FALSE

\* a users table whose only unique index is the one on email
UserUniqueViolation_EmailOnly(rows, row) ==
    \E u \in rows : u.email = row.email

\* the unique indexes of users.username and users.email, checked by the store at commit
UserUniqueViolation(rows, row) ==
    \E u \in rows : u.username = row.username \/ u.email = row.email

\* update_password that finds the user and writes nothing
update_password_KeepsHash(rows, email, new_hashed_password, t) == rows

\* UserRepository.update_password: replaces the hash of the user with that email;
\* a written row gets updated_at = now (onupdate)
update_password(rows, email, new_hashed_password, t) ==
    {IF u.email = email /\ u.hashed_password # new_hashed_password
     THEN [u EXCEPT !.hashed_password = new_hashed_password, !.updated_at = t]
     ELSE u : u \in rows}

\* UserRepository.confirm_email: sets verified; a row that does not change is not
\* written, a written row gets updated_at = now (onupdate)
confirm_email(rows, email, t) ==
    {IF u.email = email /\ ~u.verified
     THEN [u EXCEPT !.verified = TRUE, !.updated_at = t]
     ELSE u : u \in rows}

----------------------------------------------------------------------------
(* Signup: UserService.create_user, one request per process of SProcs *)

SignupBodies == [username : Usernames, email : Emails, password : Passwords]

NoBody == [username |-> None, email |-> None, password |-> None]
IdleSignup == [pc |-> "idle", body |-> NoBody, hashed |-> hash_password(None, None),
               avatar |-> NoAvatar, status |-> 0, detail |-> "", user |-> {},
               profile |-> {}, repoCalls |-> 0]

\* create_user without its pre-check
EmailTaken_Never(rows, email) == FALSE

\* no account operation has finished yet
NoAccountOp == [op |-> "none", email |-> None, token |-> NoToken, password |-> None,
                status |-> 0, detail |-> "", result |-> {}]

\* lines 57-58: existing_user = get_user_by_email(body.email); if existing_user
EmailTaken(rows, email) == get_user_by_email(rows, email) # {}

\* lines 57-71: the pre-check, the password hash and the best-effort gravatar lookup
SignupCheck(p, body) ==
    /\ sreq[p].pc = "idle"
    /\ IF EmailTaken(users, body.email)
       THEN sreq' = [sreq EXCEPT ![p] =
                [IdleSignup EXCEPT !.pc = "done", !.body = body, !.status = 409,
                     !.detail = "User with this email already exists."]]
       ELSE \E salt \in Salts, avatar \in {Gravatar(body.email), NoAvatar} :
              sreq' = [sreq EXCEPT ![p] =
                 [IdleSignup EXCEPT !.pc = "insert", !.body = body,
                      !.hashed = hash_password(body.password, salt),
                      !.avatar = avatar]]
    /\ UNCHANGED <<now, adv, users, nextUid, mails, lreq, alast, tokenVars, contactVars>>

\* lines 73-94: repository create_user (add, commit, refresh), then add_task;
\* an IntegrityError whose orig is a UniqueViolationError becomes 409
SignupInsert(p) ==
    /\ sreq[p].pc = "insert"
    /\ LET r == sreq[p]
           row == NewUser(nextUid, r.body, r.hashed, r.avatar, now)
       IN  /\ nextUid' = nextUid + 1
           /\ IF UserUniqueViolation(users, row)
              THEN /\ sreq' = [sreq EXCEPT ![p] =
                         [r EXCEPT !.pc = "done", !.status = 409,
                            !.detail = "User with this email already exists (race condition).",
                            !.repoCalls = 1]]
                   /\ UNCHANGED <<users, mails>>
              ELSE /\ users' = users \cup {row}
                   /\ mails' = Append(mails, [task |-> "send_verification_email",
                                              email |-> row.email,
                                              username |-> row.username])
                   /\ sreq' = [sreq EXCEPT ![p] =
                         [r EXCEPT !.pc = "done", !.status = 201, !.user = {row},
                            !.profile = {UserResponse(row)}, !.repoCalls = 1]]
    /\ UNCHANGED <<now, adv, lreq, alast, tokenVars, contactVars>>

----------------------------------------------------------------------------
(* Cache: redis keys user:<email> *)

NoEntry == [val |-> {}, ttl |-> NoTTL]

\* a key is there when it was set and its expiry, if it has one, is still ahead
Live(entry, t) == entry.val # {} /\ (entry.ttl = NoTTL \/ t < entry.ttl)

\* redis_client.get(key): the value, {} when the key is absent or expired
CacheGet(c, email, t) == IF Live(c[email], t) THEN c[email].val ELSE {}

\* redis_client.set(key, value): stores the value and drops any expiry of the key
CacheSet(c, email, row) == [c EXCEPT ![email] = [val |-> {row}, ttl |-> NoTTL]]

\* redis_client.expire(key, seconds): sets the expiry of a key that is there
CacheExpire(c, email, seconds, t) ==
    IF Live(c[email], t)
    THEN [c EXCEPT ![email].ttl = t + Seconds(seconds)]
    ELSE [c EXCEPT ![email] = NoEntry]

----------------------------------------------------------------------------
(* Identity resolution: get_current_user, one request per process of GProcs *)

IdleGcu == [pc |-> "idle", token |-> NoToken, late |-> FALSE, email |-> None, user |-> {},
            status |-> 0, detail |-> "", touched |-> {}, stateUser |-> {}]

\* lines 344-362: decode the bearer token, require scope access_token and a subject
GcuDecode(p, tok) ==
    /\ gcu[p].pc \in {"idle", "done"}
    /\ LET res == DecodeAccess(tok, now)
       IN  gcu' = [gcu EXCEPT ![p] =
              IF res.status = 200
              THEN [IdleGcu EXCEPT !.pc = "cache_get", !.token = tok, !.late = (tok.exp < now),
                                   !.email = res.email]
              ELSE [IdleGcu EXCEPT !.pc = "done", !.token = tok, !.late = (tok.exp < now),
                                   !.status = res.status, !.detail = res.detail]]
    /\ UNCHANGED <<now, adv, authVars, cache, tokens, dec, contactVars>>

\* the cache lookup that, on a hit, goes on to read the row from the store
GcuCacheGet_ReadsStore(p) ==
    /\ gcu[p].pc = "cache_get"
    /\ LET cached == CacheGet(cache, gcu[p].email, now)
       IN  gcu' = [gcu EXCEPT ![p] =
              IF cached # {}
              THEN [@ EXCEPT !.pc = "done", !.status = 200,
                             !.user = get_user_by_email(users, gcu[p].email),
                             !.touched = @ \cup {"cache", "store"}]
              ELSE [@ EXCEPT !.pc = "db_get", !.touched = @ \cup {"cache"}]]
    /\ UNCHANGED <<now, adv, authVars, cache, tokens, dec, contactVars>>

\* lines 364-367: cache lookup; a hit returns the unpickled snapshot
GcuCacheGet(p) ==
    /\ gcu[p].pc = "cache_get"
    /\ LET cached == CacheGet(cache, gcu[p].email, now)
       IN  gcu' = [gcu EXCEPT ![p] =
              IF cached # {}
              THEN [@ EXCEPT !.pc = "done", !.status = 200, !.user = cached,
                             !.touched = @ \cup {"cache"}]
              ELSE [@ EXCEPT !.pc = "db_get", !.touched = @ \cup {"cache"}]]
    /\ UNCHANGED <<now, adv, authVars, cache, tokens, dec, contactVars>>

\* lines 369-373: store lookup by email; no user is 401
GcuDbGet(p) ==
    /\ gcu[p].pc = "db_get"
    /\ LET found == get_user_by_email(users, gcu[p].email)
       IN  gcu' = [gcu EXCEPT ![p] =
              IF found = {}
              THEN [@ EXCEPT !.pc = "done", !.status = 401,
                             !.detail = "Could not validate credentials",
                             !.touched = @ \cup {"store"}]
              ELSE [@ EXCEPT !.pc = "cache_set", !.user = found,
                             !.touched = @ \cup {"store"}]]
    /\ UNCHANGED <<now, adv, authVars, cache, tokens, dec, contactVars>>

\* line 375: redis_client.set
GcuCacheSet(p) ==
    /\ gcu[p].pc = "cache_set"
    /\ cache' = CacheSet(cache, gcu[p].email, CHOOSE u \in gcu[p].user : TRUE)
    /\ gcu' = [gcu EXCEPT ![p].pc = "cache_expire"]
    /\ UNCHANGED <<now, adv, authVars, tokens, dec, contactVars>>

\* lines 376-379: redis_client.expire, request.state.user, return
GcuCacheExpire(p) ==
    /\ gcu[p].pc = "cache_expire"
    /\ cache' = CacheExpire(cache, gcu[p].email, CACHE_TTL_SECONDS, now)
    /\ gcu' = [gcu EXCEPT ![p] =
                 [@ EXCEPT !.pc = "done", !.status = 200, !.stateUser = gcu[p].user]]
    /\ UNCHANGED <<now, adv, authVars, tokens, dec, contactVars>>

----------------------------------------------------------------------------
(* Login: AuthService.login_user, one request per process of LProcs *)

\* OAuth2PasswordRequestForm: username (an email or a username) and password
LoginIdents == {"a@x.io", "b@x.io", "c@x.io", "z@x.io", "ann", "bob", "c@t", "zed"}
LoginPasswords == {"pw1", "pw2"}

\* "@" in body.username
HasAt(s) == \E i \in 1..Len(s) : SubSeq(s, i, i) = "@"

\* lines 215-218: lookup by email for an identifier with "@", by username otherwise
LoginLookup(rows, ident) ==
    IF HasAt(ident)
    THEN get_user_by_email(rows, ident)
    ELSE get_user_by_username(rows, ident)

LoginErr(detail) == [status |-> 401, detail |-> detail, user |-> {}]

\* the checks of login_user without the verified test
login_check_NoVerifiedTest(rows, ident, password) ==
    LET found == LoginLookup(rows, ident)
    IN  IF found = {} \/ \E u \in found : ~verify_password(password, u.hashed_password)
        THEN LoginErr("Incorrect email or password")
        ELSE [status |-> 200, detail |-> "", user |-> found]

\* the checks of login_user with the verified test ahead of the password test
login_check_VerifiedFirst(rows, ident, password) ==
    LET found == LoginLookup(rows, ident)
    IN  IF found = {}
        THEN LoginErr("Incorrect email or password")
        ELSE IF \E u \in found : ~u.verified
             THEN LoginErr("Email not verified")
             ELSE IF \E u \in found : ~verify_password(password, u.hashed_password)
                  THEN LoginErr("Incorrect email or password")
                  ELSE [status |-> 200, detail |-> "", user |-> found]

\* lines 215-231: the lookup, the password test and the verified test
login_check(rows, ident, password) ==
    LET found == LoginLookup(rows, ident)
    IN  IF found = {} \/ \E u \in found : ~verify_password(password, u.hashed_password)
        THEN LoginErr("Incorrect email or password")
        ELSE IF \E u \in found : ~u.verified
             THEN LoginErr("Email not verified")
             ELSE [status |-> 200, detail |-> "", user |-> found]

IdleLogin == [pc |-> "idle", ident |-> None, password |-> None, user |-> {},
              status |-> 0, detail |-> "", tokens |-> {}]

\* lines 213-231
LoginCheck(p, ident, password) ==
    /\ lreq[p].pc \in {"idle", "done"}
    /\ LET res == login_check(users, ident, password)
       IN  lreq' = [lreq EXCEPT ![p] =
              IF res.status = 200
              THEN [IdleLogin EXCEPT !.pc = "cache_set", !.ident = ident,
                                     !.password = password, !.user = res.user]
              ELSE [IdleLogin EXCEPT !.pc = "done", !.ident = ident,
                                     !.password = password, !.status = res.status,
                                     !.detail = res.detail]]
    /\ UNCHANGED <<now, adv, users, nextUid, mails, sreq, alast, tokenVars, contactVars>>

\* line 233: redis_client.set(f"user:{user.email}", pickle.dumps(user))
LoginCacheSet(p) ==
    /\ lreq[p].pc = "cache_set"
    /\ LET user == CHOOSE u \in lreq[p].user : TRUE
       IN  cache' = CacheSet(cache, user.email, user)
    /\ lreq' = [lreq EXCEPT ![p].pc = "cache_expire"]
    /\ UNCHANGED <<now, adv, users, nextUid, mails, sreq, alast, tokens, dec, gcu,
                   contactVars>>

\* lines 234-243: redis_client.expire, the two tokens, the response
LoginCacheExpire(p) ==
    /\ lreq[p].pc = "cache_expire"
    /\ LET user == CHOOSE u \in lreq[p].user : TRUE
       IN  /\ cache' = CacheExpire(cache, user.email, CACHE_TTL_SECONDS, now)
           /\ lreq' = [lreq EXCEPT ![p] =
                [@ EXCEPT !.pc = "done", !.status = 200,
                    !.tokens = {[access_token |->
                                    create_access_token([sub |-> user.email], NoDelta, now),
                                 refresh_token |->
                                    create_refresh_token([sub |-> user.email], now),
                                 token_type |-> "bearer"]}]]
    /\ UNCHANGED <<now, adv, users, nextUid, mails, sreq, alast, tokens, dec, gcu,
                   contactVars>>

----------------------------------------------------------------------------
(* Background tasks and the emails they deliver: EmailService *)

VerificationTask(email, username) ==
    [task |-> "send_verification_email", email |-> email, username |-> username]

ResetTask(email, username, token) ==
    [task |-> "send_password_reset_email", email |-> email, username |-> username,
     token |-> token]

\* the token the email of a task carries: send_verification_email creates it when
\* the task runs, send_password_reset_email is handed it
MailToken(task, t) ==
    IF task.task = "send_verification_email"
    THEN [fn |-> "create_email_token", at |-> t, delta |-> NoDelta,
          tok |-> create_email_token([sub |-> task.email], t)]
    ELSE [fn |-> "create_password_reset_token", at |-> task.token.iat,
          delta |-> NoDelta, tok |-> task.token]

\* the oldest scheduled task runs; the email reaches the client's inbox, or the
\* connection fails and the failure is only logged
\* a delivery whose failure takes the recipient's account back out of the store
RunMailTask_FailureUndoesSignup(delivered) ==
    /\ mails # <<>>
    /\ delivered => Cardinality(tokens) < MaxInbox
    /\ mails' = Tail(mails)
    /\ tokens' = IF delivered THEN tokens \cup {MailToken(Head(mails), now)} ELSE tokens
    /\ users' = IF delivered THEN users
                ELSE {u \in users : u.email # Head(mails).email}
    /\ UNCHANGED <<now, adv, nextUid, sreq, lreq, alast, cache, dec, gcu, contactVars>>

\* the background task at the head of the queue runs after the response was sent:
\* the email is delivered, or FastMail raises ConnectionErrors, which is logged
RunMailTask(delivered) ==
    /\ mails # <<>>
    /\ delivered => Cardinality(tokens) < MaxInbox
    /\ mails' = Tail(mails)
    /\ tokens' = IF delivered THEN tokens \cup {MailToken(Head(mails), now)} ELSE tokens
    /\ UNCHANGED <<now, adv, users, nextUid, sreq, lreq, alast, cache, dec, gcu,
                   contactVars>>

----------------------------------------------------------------------------
(* Account operations of auth_router: email verification *)

AccountResponse(op, email, token, status, detail) ==
    [op |-> op, email |-> email, token |-> token, password |-> None,
     status |-> status, detail |-> detail, result |-> {}]

\* verified_email without the test of the verified flag
verified_email_NoVerifiedTest(rows, token, t) ==
    LET res == decode_email_token(token, t)
    IN  IF res.status # 200
        THEN [rows |-> rows, status |-> res.status, detail |-> res.detail]
        ELSE IF get_user_by_email(rows, res.email) = {}
             THEN [rows |-> rows, status |-> 400, detail |-> "Verification error"]
             ELSE [rows |-> confirm_email(rows, res.email, t), status |-> 200,
                   detail |-> "Email confirmed successfully."]

\* auth_router.verified_email: the rows afterwards and the response
verified_email(rows, token, t) ==
    LET res == decode_email_token(token, t)
    IN  IF res.status # 200
        THEN [rows |-> rows, status |-> res.status, detail |-> res.detail]
        ELSE LET user == get_user_by_email(rows, res.email)
             IN  IF user = {}
                 THEN [rows |-> rows, status |-> 400, detail |-> "Verification error"]
                 ELSE IF \E u \in user : u.verified
                      THEN [rows |-> rows, status |-> 200,
                            detail |-> "Your email is already verified."]
                      ELSE [rows |-> confirm_email(rows, res.email, t), status |-> 200,
                            detail |-> "Email confirmed successfully."]

VerifiedEmail(token) ==
    /\ LET out == verified_email(users, token, now)
       IN  /\ users' = out.rows
           /\ alast' = AccountResponse("verified_email", token.sub, token,
                                       out.status, out.detail)
    /\ UNCHANGED <<now, adv, nextUid, mails, sreq, lreq, tokenVars, contactVars>>

\* auth_router.request_email: the tasks it schedules and the message it returns
request_email(rows, email) ==
    LET user == get_user_by_email(rows, email)
    IN  IF \E u \in user : u.verified
        THEN [tasks |-> <<>>, detail |-> "Your email is already verified."]
        ELSE [tasks |-> IF user = {} THEN <<>>
                        ELSE LET u == CHOOSE u \in user : TRUE
                             IN  <<VerificationTask(u.email, u.username)>>,
              detail |-> "Check your email for the verification link."]

RequestEmail(email) ==
    /\ LET out == request_email(users, email)
       IN  /\ Len(mails) + Len(out.tasks) <= MaxMails
           /\ mails' = mails \o out.tasks
           /\ alast' = AccountResponse("request_email", email, NoToken, 200, out.detail)
    /\ UNCHANGED <<now, adv, users, nextUid, sreq, lreq, tokenVars, contactVars>>

----------------------------------------------------------------------------
(* Account operations of auth_router: password reset *)

\* the salt bcrypt draws for a new hash
ResetSalts == {"s2"}

\* request_password_reset that tells a requester when there is no account
request_password_reset_NotFound(rows, email, t) ==
    LET user == get_user_by_email(rows, email)
    IN  IF user = {}
        THEN [tasks |-> <<>>, detail |-> "User not found"]
        ELSE LET u == CHOOSE u \in user : TRUE
             IN  [tasks |-> <<ResetTask(u.email, u.username,
                                  create_password_reset_token([sub |-> u.email], t))>>,
                  detail |-> "If an account with this email exists, a password reset link has been sent."]

\* auth_router.request_password_reset: the tasks it schedules and its message
request_password_reset(rows, email, t) ==
    LET user == get_user_by_email(rows, email)
    IN  [tasks |-> IF user = {} THEN <<>>
                   ELSE LET u == CHOOSE u \in user : TRUE
                        IN  <<ResetTask(u.email, u.username,
                                 create_password_reset_token([sub |-> u.email], t))>>,
         detail |-> "If an account with this email exists, a password reset link has been sent."]

RequestPasswordReset(email) ==
    /\ LET out == request_password_reset(users, email, now)
       IN  /\ Len(mails) + Len(out.tasks) <= MaxMails
           /\ mails' = mails \o out.tasks
           /\ alast' = AccountResponse("request_password_reset", email, NoToken, 200,
                                       out.detail)
    /\ UNCHANGED <<now, adv, users, nextUid, sreq, lreq, tokenVars, contactVars>>

\* UserService.reset_password(email, new_password): hash_password, then
\* update_password of the repository; the rows afterwards and the user returned
reset_password(rows, email, new_password, salt, t) ==
    LET after == update_password(rows, email, hash_password(new_password, salt), t)
    IN  [rows |-> after, user |-> get_user_by_email(after, email)]

\* auth_router.reset_password
ResetPassword(token, new_password, salt) ==
    /\ LET res == decode_password_reset_token(token, now)
       IN  IF res.status # 200
           THEN /\ alast' = [AccountResponse("reset_password", token.sub, token,
                                             res.status, res.detail)
                               EXCEPT !.password = new_password]
                /\ UNCHANGED users
           ELSE LET out == reset_password(users, res.email, new_password, salt, now)
                IN  IF out.user = {}
                    THEN /\ alast' = [AccountResponse("reset_password", token.sub, token,
                                                      404, "User not found")
                                        EXCEPT !.password = new_password]
                         /\ UNCHANGED users
                    ELSE /\ alast' = [AccountResponse("reset_password", token.sub, token,
                                          200, "Your password has been reset successfully.")
                                        EXCEPT !.password = new_password]
                         /\ users' = out.rows
    /\ UNCHANGED <<now, adv, nextUid, mails, sreq, lreq, tokenVars, contactVars>>

----------------------------------------------------------------------------
(* Role gate and the avatar update of user_router *)

\* is_admin = RoleAccessService(allowed_roles=[Role.ADMIN])
is_admin == {"admin"}

\* what Cloudinary answers to an upload: an error, or the version of the image
Uploads == {[ok |-> FALSE, version |-> "0"], [ok |-> TRUE, version |-> "1"],
            [ok |-> TRUE, version |-> "2"]}

\* upload_file: the URL built from the public id RestApp/<username> and the version
upload_file(username, version) ==
    [kind |-> "cloudinary", of |-> "RestApp/" \o username \o "/v" \o version]

\* a role gate that lets every identity through
RoleAccessService_AllowAll(allowed_roles, current_user) ==
    [status |-> 200, detail |-> "", user |-> {current_user}]

\* RoleAccessService.__call__: 403 unless the role is one of allowed_roles,
\* otherwise the identity itself
RoleAccessService(allowed_roles, current_user) ==
    IF current_user.role \notin allowed_roles
    THEN [status |-> 403, detail |-> "Not enough permissions", user |-> {}]
    ELSE [status |-> 200, detail |-> "", user |-> {current_user}]

\* the avatar update that lands in the cache and not in the store
UpdateAvatar_CacheOnly(p, up) ==
    /\ gcu[p].pc = "done"
    /\ gcu' = [gcu EXCEPT ![p] = IdleGcu]
    /\ IF gcu[p].status # 200
       THEN /\ alast' = AccountResponse("update_avatar", None, gcu[p].token,
                                        gcu[p].status, gcu[p].detail)
            /\ UNCHANGED users
       ELSE LET current_user == CHOOSE u \in gcu[p].user : TRUE
                gate == RoleAccessService(is_admin, current_user)
                after == update_avatar_url(users, current_user.email,
                                           upload_file(current_user.username, up.version),
                                           now)
                updated_user == get_user_by_email(after, current_user.email)
            IN  IF gate.status # 200
                THEN /\ alast' = AccountResponse("update_avatar", current_user.email,
                                                 gcu[p].token, gate.status, gate.detail)
                     /\ UNCHANGED users
                ELSE IF ~up.ok
                THEN /\ alast' = AccountResponse("update_avatar", current_user.email,
                                                 gcu[p].token, 400, "Cloudinary error")
                     /\ UNCHANGED users
                ELSE IF updated_user = {}
                THEN /\ alast' = AccountResponse("update_avatar", current_user.email,
                                                 gcu[p].token, 404, "User not found")
                     /\ UNCHANGED users
                ELSE /\ alast' = [AccountResponse("update_avatar", current_user.email,
                                                  gcu[p].token, 200, "")
                                    EXCEPT !.result = {UserResponse(u) : u \in updated_user}]
                     /\ UNCHANGED users
    /\ cache' = IF gcu[p].status = 200 /\ up.ok
                   /\ (CHOOSE u \in gcu[p].user : TRUE).role = "admin"
                THEN LET e == gcu[p].email
                         row == CHOOSE u \in update_avatar_url(users, e,
                                    upload_file((CHOOSE u \in gcu[p].user : TRUE).username,
                                                up.version), now) : u.email = e
                     IN  [cache EXCEPT ![e] =
                            [val |-> {row}, ttl |-> now + Seconds(CACHE_TTL_SECONDS)]]
                ELSE cache
    /\ UNCHANGED <<now, adv, nextUid, mails, sreq, lreq, tokens, dec, contactVars>>

\* the avatar update that also stores the updated row under user:<email>
UpdateAvatar_RefreshesCache(p, up) ==
    /\ gcu[p].pc = "done"
    /\ gcu' = [gcu EXCEPT ![p] = IdleGcu]
    /\ IF gcu[p].status # 200
       THEN /\ alast' = AccountResponse("update_avatar", None, gcu[p].token,
                                        gcu[p].status, gcu[p].detail)
            /\ UNCHANGED users
       ELSE LET current_user == CHOOSE u \in gcu[p].user : TRUE
                gate == RoleAccessService(is_admin, current_user)
                after == update_avatar_url(users, current_user.email,
                                           upload_file(current_user.username, up.version),
                                           now)
                updated_user == get_user_by_email(after, current_user.email)
            IN  IF gate.status # 200
                THEN /\ alast' = AccountResponse("update_avatar", current_user.email,
                                                 gcu[p].token, gate.status, gate.detail)
                     /\ UNCHANGED users
                ELSE IF ~up.ok
                THEN /\ alast' = AccountResponse("update_avatar", current_user.email,
                                                 gcu[p].token, 400, "Cloudinary error")
                     /\ UNCHANGED users
                ELSE IF updated_user = {}
                THEN /\ alast' = AccountResponse("update_avatar", current_user.email,
                                                 gcu[p].token, 404, "User not found")
                     /\ UNCHANGED users
                ELSE /\ alast' = [AccountResponse("update_avatar", current_user.email,
                                                  gcu[p].token, 200, "")
                                    EXCEPT !.result = {UserResponse(u) : u \in updated_user}]
                     /\ users' = after
    /\ cache' = IF gcu[p].status = 200 /\ up.ok
                   /\ (CHOOSE u \in gcu[p].user : TRUE).role = "admin"
                THEN LET e == gcu[p].email
                         row == CHOOSE u \in update_avatar_url(users, e,
                                    upload_file((CHOOSE u \in gcu[p].user : TRUE).username,
                                                up.version), now) : u.email = e
                     IN  [cache EXCEPT ![e] =
                            [val |-> {row}, ttl |-> now + Seconds(CACHE_TTL_SECONDS)]]
                ELSE cache
    /\ UNCHANGED <<now, adv, nextUid, mails, sreq, lreq, tokens, dec, contactVars>>

\* PATCH /users/avatar for the request whose identity get_current_user resolved
\* (or refused): the gate is_admin, then upload_file and update_avatar_url
UpdateAvatar(p, up) ==
    /\ gcu[p].pc = "done"
    /\ gcu' = [gcu EXCEPT ![p] = IdleGcu]
    /\ IF gcu[p].status # 200
       THEN /\ alast' = AccountResponse("update_avatar", None, gcu[p].token,
                                        gcu[p].status, gcu[p].detail)
            /\ UNCHANGED users
       ELSE LET current_user == CHOOSE u \in gcu[p].user : TRUE
                gate == RoleAccessService(is_admin, current_user)
                after == update_avatar_url(users, current_user.email,
                                           upload_file(current_user.username, up.version),
                                           now)
                updated_user == get_user_by_email(after, current_user.email)
            IN  IF gate.status # 200
                THEN /\ alast' = AccountResponse("update_avatar", current_user.email,
                                                 gcu[p].token, gate.status, gate.detail)
                     /\ UNCHANGED users
                ELSE IF ~up.ok
                THEN /\ alast' = AccountResponse("update_avatar", current_user.email,
                                                 gcu[p].token, 400, "Cloudinary error")
                     /\ UNCHANGED users
                ELSE IF updated_user = {}
                THEN /\ alast' = AccountResponse("update_avatar", current_user.email,
                                                 gcu[p].token, 404, "User not found")
                     /\ UNCHANGED users
                ELSE /\ alast' = [AccountResponse("update_avatar", current_user.email,
                                                  gcu[p].token, 200, "")
                                    EXCEPT !.result = {UserResponse(u) : u \in updated_user}]
                     /\ users' = after
    /\ UNCHANGED <<now, adv, nextUid, mails, sreq, lreq, cache, tokens, dec, contactVars>>

\* GET /users/me for the request whose identity get_current_user resolved (or
\* refused): the response is the resolved user through response_model UserResponse
GetOwnProfile(p) ==
    /\ gcu[p].pc = "done"
    /\ gcu' = [gcu EXCEPT ![p] = IdleGcu]
    /\ alast' = IF gcu[p].status # 200
                THEN AccountResponse("get_own_profile", None, gcu[p].token,
                                     gcu[p].status, gcu[p].detail)
                ELSE [AccountResponse("get_own_profile", gcu[p].email, gcu[p].token,
                                      200, "")
                        EXCEPT !.result = {UserResponse(u) : u \in gcu[p].user}]
    /\ UNCHANGED <<now, adv, users, nextUid, mails, sreq, lreq, cache, tokens, dec,
                   contactVars>>

\* limiter.get_limiter_key for a request whose dependency get_current_user ended as
\* r: the id of request.state.user if that attribute was set, else the remote address
RemoteAddress == "remote"
get_limiter_key(r) ==
    IF r.stateUser # {} THEN {u.id : u \in r.stateUser} ELSE {RemoteAddress}

----------------------------------------------------------------------------
(* Calendar: datetime.date and timedelta(days=i) *)

NoDate == [year |-> 0, month |-> 0, day |-> 0]

IsLeap(y) == (y % 4 = 0 /\ y % 100 # 0) \/ y % 400 = 0

DaysInMonth(y, m) ==
    IF m = 2 THEN (IF IsLeap(y) THEN 29 ELSE 28)
    ELSE IF m \in {4, 6, 9, 11} THEN 30 ELSE 31

NextDay(d) ==
    IF d.day < DaysInMonth(d.year, d.month)
    THEN [d EXCEPT !.day = @ + 1]
    ELSE IF d.month < 12
         THEN [d EXCEPT !.month = @ + 1, !.day = 1]
         ELSE [year |-> d.year + 1, month |-> 1, day |-> 1]

RECURSIVE AddDays(_, _)
AddDays(d, n) == IF n = 0 THEN d ELSE AddDays(NextDay(d), n - 1)

\* the clock of the birthday scenarios starts at 2023-01-01 00:00 and the
\* scenarios begin on a day of 2023 or 2024
Epoch == [year |-> 2023, month |-> 1, day |-> 1]
DaysInYear(y) == IF IsLeap(y) THEN 366 ELSE 365
StartDays == 0 .. (DaysInYear(2023) + DaysInYear(2024) - 1)

RECURSIVE DatesFrom(_, _)
DatesFrom(d, n) ==
    IF n = 0 THEN <<>>
    ELSE IF n = 1 THEN <<d>>
    ELSE LET half == DatesFrom(d, n \div 2)
         IN  half \o DatesFrom(NextDay(half[n \div 2]), n - (n \div 2))

\* the dates the clock can show: Epoch + 0, Epoch + 1, ...
DateTable == DatesFrom(Epoch, DaysInYear(2023) + DaysInYear(2024) + MaxAdvance + 1)

\* datetime.date.today() when the clock shows t
Today(t) == DateTable[(t \div Days(1)) + 1]

----------------------------------------------------------------------------
(* Contact store: ContactRepository over table "contacts".                 *)
(* Text columns are sequences of characters; <<"None">> is SQL NULL / None. *)

NoneStr == <<"None">>

Lower(ch) ==
    CASE ch = "A" -> "a" [] ch = "B" -> "b" [] ch = "L" -> "l" [] ch = "X" -> "x"
      [] OTHER -> ch

\* SQL LIKE on lower-cased operands: % is any run of characters, _ any one character
RECURSIVE LikeMatch(_, _)
LikeMatch(pat, str) ==
    IF pat = <<>> THEN str = <<>>
    ELSE IF Head(pat) = "%"
         THEN LikeMatch(Tail(pat), str) \/ (str # <<>> /\ LikeMatch(pat, Tail(str)))
         ELSE /\ str # <<>>
              /\ (Head(pat) = "_" \/ Lower(Head(pat)) = Lower(Head(str)))
              /\ LikeMatch(Tail(pat), Tail(str))

\* column.ilike(f"%{value}%"); a NULL column matches nothing
ILike(column, value) ==
    column # NoneStr /\ LikeMatch(<<"%">> \o value \o <<"%">>, column)

\* `if first_name:` - None and the empty string add no filter
Truthy(value) == value # NoneStr /\ value # <<>>

\* the lookup without its owner filter
get_contact_by_id_AnyOwner(rows, contact_id, user) ==
    {c \in rows : c.id = contact_id}

\* select(Contact).where(Contact.id == contact_id, Contact.user_id == user.id)
get_contact_by_id(rows, contact_id, user) ==
    {c \in rows : c.id = contact_id /\ c.user_id = user.id}

\* the list query without its owner filter
MatchingContacts_AnyOwner(rows, first_name, last_name, email, user) ==
    {c \in rows :
        /\ (Truthy(first_name) => ILike(c.first_name, first_name))
        /\ (Truthy(last_name) => ILike(c.last_name, last_name))
        /\ (Truthy(email) => ILike(c.email, email))}

\* the rows the filtered query of get_contacts selects, before offset and limit
MatchingContacts(rows, first_name, last_name, email, user) ==
    {c \in rows :
        /\ c.user_id = user.id
        /\ (Truthy(first_name) => ILike(c.first_name, first_name))
        /\ (Truthy(last_name) => ILike(c.last_name, last_name))
        /\ (Truthy(email) => ILike(c.email, email))}

Min(a, b) == IF a < b THEN a ELSE b
Max(a, b) == IF a > b THEN a ELSE b

\* offset(skip).limit(limit) of a query with no ORDER BY: the store may return the
\* matching rows in any order, so any set of the right size can be the page
Pages(matching, skip, limit) ==
    {page \in SUBSET matching :
        Cardinality(page) = Min(limit, Max(0, Cardinality(matching) - skip))}

\* a window of six days
BirthdayTuples_SixDays(today) ==
    {<<AddDays(today, i).month, AddDays(today, i).day>> : i \in 0..5}

\* a window that adds 0 .. 6 to the day number and stays in the month of today
get_upcoming_birthdays_SameMonth(rows, user, today) ==
    {c \in rows :
        /\ c.user_id = user.id
        /\ c.birthday # NoDate
        /\ c.birthday.month = today.month
        /\ c.birthday.day - today.day \in 0..6}

\* (month, day) of today + 0 .. today + 6
BirthdayTuples(today) == {<<AddDays(today, i).month, AddDays(today, i).day>> : i \in 0..6}

get_upcoming_birthdays(rows, user, today) ==
    {c \in rows :
        /\ c.user_id = user.id
        /\ c.birthday # NoDate
        /\ <<c.birthday.month, c.birthday.day>> \in BirthdayTuples(today)}

\* Contact(**contact_data, user_id=user.id) with the column defaults
NewContact(id, body, user, t) ==
    [id |-> id, user_id |-> user.id, first_name |-> body.first_name,
     last_name |-> body.last_name, email |-> body.email,
     phone_number |-> body.phone_number, birthday |-> body.birthday,
     created_at |-> t, updated_at |-> t]

\* a unique constraint on the email column alone
ContactUniqueViolation_AnyOwner(rows, row) ==
    /\ row.email # NoneStr
    /\ \E c \in rows : c.id # row.id /\ c.email = row.email

\* UniqueConstraint("user_id", "email"): NULL emails never collide
ContactUniqueViolation(rows, row) ==
    /\ row.email # NoneStr
    /\ \E c \in rows : c.id # row.id /\ c.user_id = row.user_id /\ c.email = row.email

\* first_name and last_name are NOT NULL columns
ContactNotNullViolation(row) == row.first_name = NoneStr \/ row.last_name = NoneStr

\* an update that takes the birthday from the body whether the request set it or
\* not
ApplyUpdate_BirthdayAlways(c, body) ==
    [c EXCEPT
        !.first_name = IF "first_name" \in body.fields THEN body.first_name ELSE @,
        !.last_name = IF "last_name" \in body.fields THEN body.last_name ELSE @,
        !.email = IF "email" \in body.fields THEN body.email ELSE @,
        !.phone_number = IF "phone_number" \in body.fields THEN body.phone_number ELSE @,
        !.birthday = body.birthday]

\* for key, value in body.model_dump(exclude_unset=True).items(): setattr(contact, key, value)
ApplyUpdate(c, body) ==
    [c EXCEPT
        !.first_name = IF "first_name" \in body.fields THEN body.first_name ELSE @,
        !.last_name = IF "last_name" \in body.fields THEN body.last_name ELSE @,
        !.email = IF "email" \in body.fields THEN body.email ELSE @,
        !.phone_number = IF "phone_number" \in body.fields THEN body.phone_number ELSE @,
        !.birthday = IF "birthday" \in body.fields THEN body.birthday ELSE @]

----------------------------------------------------------------------------
(* Contact operations: contact_router -> ContactService -> ContactRepository. *)
(* The caller is the user get_current_user resolved.                        *)

FirstNames == {<<"A", "l">>, <<"B", "o">>}
LastNames == {<<"L", "i">>}
ContactEmails == {<<"a", "@", "x">>, <<"b", "@", "x">>}
Phones == {NoneStr}
Birthdays == {NoDate, [year |-> 1990, month |-> 12, day |-> 30]}
Todays == {[year |-> 2024, month |-> 12, day |-> 27],
           [year |-> 2025, month |-> 1, day |-> 3]}
FieldNames == {"first_name", "last_name", "email", "phone_number", "birthday"}
\* first_name, last_name, email of a list request
ListFilters == {<<NoneStr, NoneStr, NoneStr>>, <<<<"a">>, <<>>, NoneStr>>,
                <<NoneStr, <<"L">>, <<"B">>>>}

\* ContactBase: every field but phone_number and birthday is required
ContactBodies ==
    [first_name : FirstNames, last_name : LastNames, email : ContactEmails,
     phone_number : Phones, birthday : Birthdays]

\* ContactUpdate: every field optional; `fields` are the fields the request sets
\* (exclude_unset keeps exactly those), a set field may carry None
UpdateBodies ==
    {b \in [fields : SUBSET FieldNames,
            first_name : {<<"B", "o">>, NoneStr},
            last_name : {NoneStr},
            email : ContactEmails \cup {NoneStr},
            phone_number : {NoneStr},
            birthday : Birthdays] :
        /\ "email" \in b.fields => b.email # NoneStr
        /\ Cardinality(b.fields) <= 1 \/ b.fields = {"first_name", "email"}
        /\ "first_name" \notin b.fields => b.first_name = NoneStr
        /\ "last_name" \notin b.fields
        /\ "email" \notin b.fields => b.email = NoneStr
        /\ "birthday" \notin b.fields => b.birthday = NoDate}

NoContactBody == [first_name |-> NoneStr, last_name |-> NoneStr, email |-> NoneStr,
                  phone_number |-> NoneStr, birthday |-> NoDate]
IdleCreate == [pc |-> "idle", user |-> 0, body |-> NoContactBody, status |-> 0]

NoLast == [op |-> "none", user |-> 0, id |-> 0, status |-> 0, detail |-> "",
           named |-> NoneStr, result |-> {}]

Response(op, user, id, status, detail, result) ==
    [op |-> op, user |-> user.id, id |-> id, status |-> status, detail |-> detail,
     named |-> NoneStr, result |-> result]

\* create_contact against a store without the unique constraint
CreateOutcome_NoConstraint(rows, id, user, body, t) ==
    LET row == NewContact(id, body, user, t)
    IN  [rows |-> rows \cup {row},
         resp |-> Response("create_contact", user, row.id, 201, "", {row})]

\* ContactService.create_contact around ContactRepository.create_contact:
\* add, commit (the store checks the unique constraint), refresh; a
\* UniqueViolationError becomes 409. The rows afterwards and the response.
CreateOutcome(rows, id, user, body, t) ==
    LET row == NewContact(id, body, user, t)
    IN  IF ContactUniqueViolation(rows, row)
        THEN [rows |-> rows,
              resp |-> [Response("create_contact", user, 0, 409,
                                 "Contact with email already exists for this user.", {})
                          EXCEPT !.named = body.email]]
        ELSE [rows |-> rows \cup {row},
              resp |-> Response("create_contact", user, row.id, 201, "", {row})]

\* contact_router.create_contact, one request after the other
CreateContact(user, body) ==
    /\ LET out == CreateOutcome(contacts, nextCid, user, body, now)
       IN  /\ contacts' = out.rows
           /\ last' = out.resp
    /\ nextCid' = nextCid + 1
    /\ UNCHANGED <<now, adv, authVars, tokenVars, creq>>

\* contact_router.create_contact, concurrent requests: the request arrives with a
\* validated ContactBase ...
CreateContactBegin(p, user, body) ==
    /\ creq[p].pc = "idle"
    /\ creq' = [creq EXCEPT ![p] =
                  [pc |-> "commit", user |-> user.id, body |-> body, status |-> 0]]
    /\ UNCHANGED <<now, adv, authVars, tokenVars, contacts, nextCid, last>>

\* ... and its one step against the store is the commit
CreateContactCommit(p) ==
    /\ creq[p].pc = "commit"
    /\ LET out == CreateOutcome(contacts, nextCid, [id |-> creq[p].user],
                                creq[p].body, now)
       IN  /\ contacts' = out.rows
           /\ last' = out.resp
           /\ creq' = [creq EXCEPT ![p].pc = "done", ![p].status = out.resp.status]
    /\ nextCid' = nextCid + 1
    /\ UNCHANGED <<now, adv, authVars, tokenVars>>

\* contact_router.get_contact_by_id
GetContactById(user, contact_id) ==
    /\ LET found == get_contact_by_id(contacts, contact_id, user)
       IN  last' = IF found = {}
                   THEN Response("get_contact_by_id", user, contact_id, 404,
                                 "Contact not found", {})
                   ELSE Response("get_contact_by_id", user, contact_id, 200, "", found)
    /\ UNCHANGED <<now, adv, authVars, tokenVars, contacts, nextCid, creq>>

\* contact_router.get_contacts
GetContacts(user, skip, limit, first_name, last_name, email) ==
    /\ \E page \in Pages(MatchingContacts(contacts, first_name, last_name, email, user),
                         skip, limit) :
          last' = Response("get_contacts", user, 0, 200, "", page)
    /\ UNCHANGED <<now, adv, authVars, tokenVars, contacts, nextCid, creq>>

\* contact_router.get_upcoming_birthdays; today is datetime.date.today()
GetUpcomingBirthdays(user, today) ==
    /\ last' = Response("get_upcoming_birthdays", user, 0, 200, "",
                        get_upcoming_birthdays(contacts, user, today))
    /\ UNCHANGED <<now, adv, authVars, tokenVars, contacts, nextCid, creq>>

\* an update that writes the row, and so refreshes updated_at, whether or not a
\* value changed
UpdateContact_AlwaysWrites(user, contact_id, body) ==
    /\ LET found == get_contact_by_id(contacts, contact_id, user)
       IN  IF found = {}
           THEN /\ last' = Response("update_contact", user, contact_id, 404,
                                    "Contact not found", {})
                /\ UNCHANGED contacts
           ELSE LET old == CHOOSE c \in found : TRUE
                    new == [ApplyUpdate(old, body) EXCEPT !.updated_at = now]
                IN  IF ContactNotNullViolation(new)
                       \/ ContactUniqueViolation(contacts \ {old}, new)
                    THEN /\ last' = Response("update_contact", user, contact_id, 500,
                                             "Internal Server Error", {})
                         /\ UNCHANGED contacts
                    ELSE /\ contacts' = (contacts \ {old}) \cup {new}
                         /\ last' = Response("update_contact", user, contact_id, 200,
                                             "", {new})
    /\ UNCHANGED <<now, adv, authVars, tokenVars, nextCid, creq>>

\* the update on a table without the unique constraint on (user_id, email)
UpdateContact_NoUniqueCheck(user, contact_id, body) ==
    /\ LET found == get_contact_by_id(contacts, contact_id, user)
       IN  IF found = {}
           THEN /\ last' = Response("update_contact", user, contact_id, 404,
                                    "Contact not found", {})
                /\ UNCHANGED contacts
           ELSE LET old == CHOOSE c \in found : TRUE
                    set == ApplyUpdate(old, body)
                    new == IF set = old THEN old ELSE [set EXCEPT !.updated_at = now]
                IN  IF ContactNotNullViolation(new)
                    THEN /\ last' = Response("update_contact", user, contact_id, 500,
                                             "Internal Server Error", {})
                         /\ UNCHANGED contacts
                    ELSE /\ contacts' = (contacts \ {old}) \cup {new}
                         /\ last' = Response("update_contact", user, contact_id, 200,
                                             "", {new})
    /\ UNCHANGED <<now, adv, authVars, tokenVars, nextCid, creq>>

\* contact_router.update_contact -> ContactRepository.update_contact:
\* an unchanged row is not written; a write refreshes updated_at (onupdate);
\* an IntegrityError at commit is not caught and leaves the store as it was
UpdateContact(user, contact_id, body) ==
    /\ LET found == get_contact_by_id(contacts, contact_id, user)
       IN  IF found = {}
           THEN /\ last' = Response("update_contact", user, contact_id, 404,
                                    "Contact not found", {})
                /\ UNCHANGED contacts
           ELSE LET old == CHOOSE c \in found : TRUE
                    set == ApplyUpdate(old, body)
                    new == IF set = old THEN old ELSE [set EXCEPT !.updated_at = now]
                IN  IF ContactNotNullViolation(new)
                       \/ ContactUniqueViolation(contacts \ {old}, new)
                    THEN /\ last' = Response("update_contact", user, contact_id, 500,
                                             "Internal Server Error", {})
                         /\ UNCHANGED contacts
                    ELSE /\ contacts' = (contacts \ {old}) \cup {new}
                         /\ last' = Response("update_contact", user, contact_id, 200,
                                             "", {new})
    /\ UNCHANGED <<now, adv, authVars, tokenVars, nextCid, creq>>

\* a deletion that answers with the contact and leaves it in the store
DeleteContact_KeepsRow(user, contact_id) ==
    /\ LET found == get_contact_by_id(contacts, contact_id, user)
       IN  last' = IF found = {}
                   THEN Response("delete_contact", user, contact_id, 404,
                                 "Contact not found", {})
                   ELSE Response("delete_contact", user, contact_id, 200, "", found)
    /\ UNCHANGED <<now, adv, authVars, tokenVars, contacts, nextCid, creq>>

\* contact_router.delete_contact -> ContactRepository.delete_contact
DeleteContact(user, contact_id) ==
    /\ LET found == get_contact_by_id(contacts, contact_id, user)
       IN  IF found = {}
           THEN /\ last' = Response("delete_contact", user, contact_id, 404,
                                    "Contact not found", {})
                /\ UNCHANGED contacts
           ELSE /\ contacts' = contacts \ found
                /\ last' = Response("delete_contact", user, contact_id, 200, "", found)
    /\ UNCHANGED <<now, adv, authVars, tokenVars, nextCid, creq>>

----------------------------------------------------------------------------
(* Specifications *)

InitAll ==
    /\ now = 0
    /\ adv = 0
    /\ users = {}
    /\ nextUid = 1
    /\ mails = <<>>
    /\ sreq = [p \in SProcs |-> IdleSignup]
    /\ lreq = [p \in LProcs |-> IdleLogin]
    /\ alast = NoAccountOp
    /\ cache = [e \in Emails |-> NoEntry]
    /\ tokens = {}
    /\ dec = NoDecode
    /\ gcu = [p \in GProcs |-> IdleGcu]
    /\ contacts = {}
    /\ nextCid = 1
    /\ creq = [p \in CProcs |-> IdleCreate]
    /\ last = NoLast

\* the accounts of two users who signed up
AnnBody == [username |-> "ann", email |-> "a@x.io", password |-> "pw1"]
BobBody == [username |-> "bob", email |-> "b@x.io", password |-> "pw1"]
SeedUsers ==
    {NewUser(1, AnnBody, hash_password("pw1", "s1"), Gravatar("a@x.io"), 0),
     NewUser(2, BobBody, hash_password("pw1", "s1"), Gravatar("b@x.io"), 0)}

\* the state after those two signups
SeededInit ==
    /\ now = 0
    /\ adv = 0
    /\ users = SeedUsers
    /\ nextUid = 3
    /\ mails = <<[task |-> "send_verification_email", email |-> "a@x.io",
                  username |-> "ann"],
                 [task |-> "send_verification_email", email |-> "b@x.io",
                  username |-> "bob"]>>
    /\ sreq = [p \in SProcs |-> IdleSignup]
    /\ lreq = [p \in LProcs |-> IdleLogin]
    /\ alast = NoAccountOp
    /\ cache = [e \in Emails |-> NoEntry]
    /\ tokens = {}
    /\ dec = NoDecode
    /\ gcu = [p \in GProcs |-> IdleGcu]
    /\ contacts = {}
    /\ nextCid = 1
    /\ creq = [p \in CProcs |-> IdleCreate]
    /\ last = NoLast

\* the token engine and identity resolution
TokenNext ==
    \/ \E d \in TimeSteps : Advance(d)
    \/ \E data \in TokenData, delta \in Deltas : CreateAccessToken(data, delta)
    \/ \E data \in TokenData : CreateRefreshToken(data)
    \/ \E data \in TokenData : CreateEmailToken(data)
    \/ \E data \in TokenData : CreatePasswordResetToken(data)
    \/ \E tok \in Presentable : DecodeRefreshToken(tok)
    \/ \E tok \in Presentable : DecodeEmailToken(tok)
    \/ \E tok \in Presentable : DecodePasswordResetToken(tok)
    \/ \E p \in GProcs, tok \in Presentable : GcuDecode(p, tok)
    \/ \E p \in GProcs : GcuCacheGet(p)
    \/ \E p \in GProcs : GcuDbGet(p)
    \/ \E p \in GProcs : GcuCacheSet(p)
    \/ \E p \in GProcs : GcuCacheExpire(p)

SpecToken == SeededInit /\ [][TokenNext]_vars

\* concurrent signups, from the empty store
SignupNext ==
    \/ \E p \in SProcs, body \in SignupBodies : SignupCheck(p, body)
    \/ \E p \in SProcs : SignupInsert(p)

SpecSignup == InitAll /\ [][SignupNext]_vars

\* ann and bob each hold one contact, both with the same email, created at time 0
ContactEditInit ==
    /\ now = 0
    /\ adv = 0
    /\ users = SeedUsers
    /\ nextUid = 3
    /\ mails = <<>>
    /\ sreq = [p \in SProcs |-> IdleSignup]
    /\ lreq = [p \in LProcs |-> IdleLogin]
    /\ alast = NoAccountOp
    /\ cache = [e \in Emails |-> NoEntry]
    /\ tokens = {}
    /\ dec = NoDecode
    /\ gcu = [p \in GProcs |-> IdleGcu]
    /\ \E ann \in get_user_by_email(SeedUsers, "a@x.io"),
          bob \in get_user_by_email(SeedUsers, "b@x.io") :
          contacts =
            {NewContact(1, [first_name |-> <<"A", "l">>, last_name |-> <<"L", "i">>,
                            email |-> <<"a", "@", "x">>, phone_number |-> NoneStr,
                            birthday |-> NoDate], ann, 0),
             NewContact(2, [first_name |-> <<"B", "o">>, last_name |-> <<"L", "i">>,
                            email |-> <<"a", "@", "x">>, phone_number |-> NoneStr,
                            birthday |-> NoDate], bob, 0)}
    /\ nextCid = 3
    /\ creq = [p \in CProcs |-> IdleCreate]
    /\ last = NoLast

\* ann updates contacts by id while time passes; both users read contacts by id
ContactUpdateNext ==
    \/ Advance(1)
    \/ \E user \in users, id \in 1..MaxCreate : GetContactById(user, id)
    \/ \E user \in get_user_by_email(users, "a@x.io"), id \in 1..MaxCreate,
          body \in UpdateBodies : UpdateContact(user, id, body)

SpecContactUpdate == ContactEditInit /\ [][ContactUpdateNext]_vars

\* deletions by both users, and what ann can do with the ids afterwards
ContactDeleteNext ==
    \/ \E user \in users, id \in 1..MaxCreate : DeleteContact(user, id)
    \/ \E user \in users, id \in 1..MaxCreate : GetContactById(user, id)
    \/ \E user \in get_user_by_email(users, "a@x.io"), id \in 1..MaxCreate,
          body \in UpdateBodies : UpdateContact(user, id, body)
    \/ \E user \in get_user_by_email(users, "a@x.io"), body \in ContactBodies :
          nextCid <= MaxCreate /\ CreateContact(user, body)

SpecContactDelete == ContactEditInit /\ [][ContactDeleteNext]_vars

\* ---- updates of the email of a contact ----

\* ann holds two contacts with different emails; bob holds one with the email of
\* ann's first
ContactEmailInit ==
    /\ now = 0
    /\ adv = 0
    /\ users = SeedUsers
    /\ nextUid = 3
    /\ mails = <<>>
    /\ sreq = [p \in SProcs |-> IdleSignup]
    /\ lreq = [p \in LProcs |-> IdleLogin]
    /\ alast = NoAccountOp
    /\ cache = [e \in Emails |-> NoEntry]
    /\ tokens = {}
    /\ dec = NoDecode
    /\ gcu = [p \in GProcs |-> IdleGcu]
    /\ \E ann \in get_user_by_email(SeedUsers, "a@x.io"),
          bob \in get_user_by_email(SeedUsers, "b@x.io") :
          contacts =
            {NewContact(1, [first_name |-> <<"A", "l">>, last_name |-> <<"L", "i">>,
                            email |-> <<"a", "@", "x">>, phone_number |-> NoneStr,
                            birthday |-> NoDate], ann, 0),
             NewContact(2, [first_name |-> <<"A", "l">>, last_name |-> <<"L", "i">>,
                            email |-> <<"b", "@", "x">>, phone_number |-> NoneStr,
                            birthday |-> NoDate], ann, 0),
             NewContact(3, [first_name |-> <<"B", "o">>, last_name |-> <<"L", "i">>,
                            email |-> <<"a", "@", "x">>, phone_number |-> NoneStr,
                            birthday |-> NoDate], bob, 0)}
    /\ nextCid = 4
    /\ creq = [p \in CProcs |-> IdleCreate]
    /\ last = NoLast

ContactEmailNext ==
    \/ \E user \in users, id \in 1..3 : GetContactById(user, id)
    \/ \E user \in users, id \in 1..3, body \in UpdateBodies :
          "birthday" \notin body.fields /\ UpdateContact(user, id, body)

SpecContactEmail == ContactEmailInit /\ [][ContactEmailNext]_vars

\* ---- listing contacts ----

\* skip, limit and the three optional filters of GET /contacts
ListRequests ==
    [skip : 0..1, limit : 1..2,
     first_name : {NoneStr, <<>>, <<"a">>},
     last_name : {NoneStr, <<"l", "I">>},
     email : {NoneStr, <<"_">>, <<"@", "X">>}]

ContactListNext ==
    \/ \E user \in users, body \in ContactBodies :
          /\ nextCid <= MaxCid
          /\ body.birthday = NoDate
          /\ CreateContact(user, body)
    \/ \E user \in users, q \in ListRequests :
          GetContacts(user, q.skip, q.limit, q.first_name, q.last_name, q.email)

SpecContactList == SeededInit /\ [][ContactListNext]_vars

\* birthdays of the stored contacts in the birthday scenarios
BirthdaySamples ==
    {NoDate,
     [year |-> 1990, month |-> 12, day |-> 30],
     [year |-> 2001, month |-> 1, day |-> 2],
     [year |-> 2000, month |-> 2, day |-> 29],
     [year |-> 1985, month |-> 3, day |-> 1],
     [year |-> 1999, month |-> 7, day |-> 15]}

BirthdayBody(email, birthday) ==
    [first_name |-> <<"A", "l">>, last_name |-> <<"L", "i">>, email |-> email,
     phone_number |-> NoneStr, birthday |-> birthday]

\* ann holds a contact born on Dec 30 and one more, bob holds one born on Jan 2;
\* the day is any day of 2023 or 2024
BirthdayInit ==
    /\ now \in {Days(k) : k \in StartDays}
    /\ adv = 0
    /\ users = SeedUsers
    /\ nextUid = 3
    /\ mails = <<>>
    /\ sreq = [p \in SProcs |-> IdleSignup]
    /\ lreq = [p \in LProcs |-> IdleLogin]
    /\ alast = NoAccountOp
    /\ cache = [e \in Emails |-> NoEntry]
    /\ tokens = {}
    /\ dec = NoDecode
    /\ gcu = [p \in GProcs |-> IdleGcu]
    /\ \E b \in BirthdaySamples, ann \in get_user_by_email(SeedUsers, "a@x.io"),
          bob \in get_user_by_email(SeedUsers, "b@x.io") :
          contacts =
            {NewContact(1, BirthdayBody(<<"a", "@", "x">>,
                                        [year |-> 1990, month |-> 12, day |-> 30]), ann, 0),
             NewContact(2, BirthdayBody(<<"b", "@", "x">>, b), ann, 0),
             NewContact(3, BirthdayBody(<<"a", "@", "x">>,
                                        [year |-> 2001, month |-> 1, day |-> 2]), bob, 0)}
    /\ nextCid = 4
    /\ creq = [p \in CProcs |-> IdleCreate]
    /\ last = NoLast

\* the birthday query on the day the clock shows; time passes by minutes and days
BirthdayNext ==
    \/ \E d \in {1, Days(1)} : Advance(d)
    \/ \E user \in users : GetUpcomingBirthdays(user, Today(now))

SpecBirthday == BirthdayInit /\ [][BirthdayNext]_vars

\* concurrent signups and the background tasks they leave behind
SignupMailNext ==
    \/ \E p \in SProcs, body \in SignupBodies : SignupCheck(p, body)
    \/ \E p \in SProcs : SignupInsert(p)
    \/ \E delivered \in BOOLEAN : RunMailTask(delivered)

SpecSignupMail == InitAll /\ [][SignupMailNext]_vars

\* the contact operations of the two users, one request after the other
ContactNext ==
    \/ \E user \in users, body \in ContactBodies :
          nextCid <= MaxCid /\ CreateContact(user, body)
    \/ \E user \in users, id \in 1..MaxCid : GetContactById(user, id)
    \/ \E user \in users, page \in {<<0, 2>>, <<1, 1>>}, filter \in ListFilters :
          GetContacts(user, page[1], page[2], filter[1], filter[2], filter[3])
    \/ \E user \in users, today \in Todays : GetUpcomingBirthdays(user, today)
    \/ \E user \in users, id \in 1..MaxCid, body \in UpdateBodies :
          UpdateContact(user, id, body)
    \/ \E user \in users, id \in 1..MaxCid : DeleteContact(user, id)

SpecContact == SeededInit /\ [][ContactNext]_vars

\* creations only, one request after the other
ContactCreateNext ==
    \E user \in users, body \in ContactBodies :
        nextCid <= MaxCreate /\ CreateContact(user, body)

SpecContactCreate == SeededInit /\ [][ContactCreateNext]_vars

\* concurrent create-contact requests
ContactRaceNext ==
    \/ \E p \in CProcs, user \in users, body \in ContactBodies :
          CreateContactBegin(p, user, body)
    \/ \E p \in CProcs : CreateContactCommit(p)

SpecContactRace == SeededInit /\ [][ContactRaceNext]_vars

\* a third account, whose username holds an "@"
CatBody == [username |-> "c@t", email |-> "c@x.io", password |-> "pw1"]
LoginSeed ==
    SeedUsers \cup
       {NewUser(3, CatBody, hash_password("pw1", "s1"), Gravatar("c@x.io"), 0)}

\* three signups; ann has confirmed her email, bob has not, the third may have
LoginInit ==
    /\ now = 0
    /\ adv = 0
    /\ users \in {confirm_email(LoginSeed, "a@x.io", 0),
                  confirm_email(confirm_email(LoginSeed, "a@x.io", 0), "c@x.io", 0)}
    /\ nextUid = 4
    /\ mails = <<>>
    /\ sreq = [p \in SProcs |-> IdleSignup]
    /\ lreq = [p \in LProcs |-> IdleLogin]
    /\ alast = NoAccountOp
    /\ cache = [e \in Emails |-> NoEntry]
    /\ tokens = {}
    /\ dec = NoDecode
    /\ gcu = [p \in GProcs |-> IdleGcu]
    /\ contacts = {}
    /\ nextCid = 1
    /\ creq = [p \in CProcs |-> IdleCreate]
    /\ last = NoLast

\* logins, one after the other, while the clock runs
LoginNext ==
    \/ \E d \in {1, Seconds(CACHE_TTL_SECONDS)} : Advance(d)
    \/ \E p \in LProcs, ident \in LoginIdents, password \in LoginPasswords :
          LoginCheck(p, ident, password)
    \/ \E p \in LProcs : LoginCacheSet(p)
    \/ \E p \in LProcs : LoginCacheExpire(p)

SpecLogin == LoginInit /\ [][LoginNext]_vars

\* ann has confirmed her email; bob has not and his verification email is still
\* to be sent
VerifyInit ==
    /\ now = 0
    /\ adv = 0
    /\ users = confirm_email(SeedUsers, "a@x.io", 0)
    /\ nextUid = 3
    /\ mails = <<VerificationTask("b@x.io", "bob")>>
    /\ sreq = [p \in SProcs |-> IdleSignup]
    /\ lreq = [p \in LProcs |-> IdleLogin]
    /\ alast = NoAccountOp
    /\ cache = [e \in Emails |-> NoEntry]
    /\ tokens = {}
    /\ dec = NoDecode
    /\ gcu = [p \in GProcs |-> IdleGcu]
    /\ contacts = {}
    /\ nextCid = 1
    /\ creq = [p \in CProcs |-> IdleCreate]
    /\ last = NoLast

\* email verification: requests for the email, its delivery, its confirmation
VerifyNext ==
    \/ \E d \in {1, Hours(EMAIL_TOKEN_EXPIRE_HOURS)} : Advance(d)
    \/ \E email \in Emails : RequestEmail(email)
    \/ \E delivered \in BOOLEAN : RunMailTask(delivered)
    \/ \E data \in TokenData : CreateEmailToken(data)
    \/ \E token \in Presentable : VerifiedEmail(token)

SpecVerify == VerifyInit /\ [][VerifyNext]_vars

\* ann has confirmed her email, bob has not; no task is waiting
ResetInit ==
    /\ now = 0
    /\ adv = 0
    /\ users = confirm_email(SeedUsers, "a@x.io", 0)
    /\ nextUid = 3
    /\ mails = <<>>
    /\ sreq = [p \in SProcs |-> IdleSignup]
    /\ lreq = [p \in LProcs |-> IdleLogin]
    /\ alast = NoAccountOp
    /\ cache = [e \in Emails |-> NoEntry]
    /\ tokens = {}
    /\ dec = NoDecode
    /\ gcu = [p \in GProcs |-> IdleGcu]
    /\ contacts = {}
    /\ nextCid = 1
    /\ creq = [p \in CProcs |-> IdleCreate]
    /\ last = NoLast

\* password reset: the request, the delivery of its email, the reset; one more
\* token is signed for an email that has no account
ResetNext ==
    \/ Advance(Minutes(PASSWORD_RESET_TOKEN_EXPIRE_MINUTES))
    \/ \E email \in Emails : RequestPasswordReset(email)
    \/ \E delivered \in BOOLEAN : RunMailTask(delivered)
    \/ CreatePasswordResetToken([sub |-> "c@x.io"])
    \/ \E token \in Presentable, password \in LoginPasswords, salt \in ResetSalts :
          ResetPassword(token, password, salt)

SpecReset == ResetInit /\ [][ResetNext]_vars

\* ann was made admin in the store, bob has role user; both confirmed their
\* email, logged in at time 0 and hold the access tokens of those logins
RoleInit ==
    /\ now = 0
    /\ adv = 0
    /\ users = {IF u.email = "a@x.io" THEN [u EXCEPT !.role = "admin"] ELSE u :
                  u \in confirm_email(confirm_email(SeedUsers, "a@x.io", 0), "b@x.io", 0)}
    /\ nextUid = 3
    /\ mails = <<>>
    /\ sreq = [p \in SProcs |-> IdleSignup]
    /\ lreq = [p \in LProcs |-> IdleLogin]
    /\ alast = NoAccountOp
    /\ cache = [e \in Emails |-> NoEntry]
    /\ tokens = {[fn |-> "create_access_token", at |-> 0, delta |-> NoDelta,
                  tok |-> create_access_token([sub |-> e], NoDelta, 0)] :
                    e \in {"a@x.io", "b@x.io"}}
    /\ dec = NoDecode
    /\ gcu = [p \in GProcs |-> IdleGcu]
    /\ contacts = {}
    /\ nextCid = 1
    /\ creq = [p \in CProcs |-> IdleCreate]
    /\ last = NoLast

\* PATCH /users/avatar: identity resolution, then the gate and the update
RoleNext ==
    \/ \E d \in {1, Seconds(CACHE_TTL_SECONDS)} : Advance(d)
    \/ \E p \in GProcs, tok \in Presentable : GcuDecode(p, tok)
    \/ \E p \in GProcs : GcuCacheGet(p)
    \/ \E p \in GProcs : GcuDbGet(p)
    \/ \E p \in GProcs : GcuCacheSet(p)
    \/ \E p \in GProcs : GcuCacheExpire(p)
    \/ \E p \in GProcs, up \in Uploads : UpdateAvatar(p, up)

SpecRole == RoleInit /\ [][RoleNext]_vars

\* ---- identity resolution next to logins and a profile change ----

StaleNext ==
    \/ \E d \in {1, Seconds(CACHE_TTL_SECONDS)} : Advance(d)
    \/ \E p \in GProcs, tok \in {k \in Issued : k.sub = "a@x.io"} : GcuDecode(p, tok)
    \/ \E p \in GProcs : GcuCacheGet(p)
    \/ \E p \in GProcs : GcuDbGet(p)
    \/ \E p \in GProcs : GcuCacheSet(p)
    \/ \E p \in GProcs : GcuCacheExpire(p)
    \/ \E p \in GProcs, up \in Uploads : UpdateAvatar(p, up)
    \/ \E p \in LProcs : LoginCheck(p, "a@x.io", "pw1")
    \/ \E p \in LProcs : LoginCacheSet(p)
    \/ \E p \in LProcs : LoginCacheExpire(p)

SpecStale == RoleInit /\ [][StaleNext]_vars

\* ---- identity resolution with a cache that may be unreachable ----

\* lines 364-376: redis_client.get, set or expire raises (redis ConnectionError);
\* nothing catches it, so the request is answered 500
GcuCacheDown(p) ==
    /\ gcu[p].pc \in {"cache_get", "cache_set", "cache_expire"}
    /\ gcu' = [gcu EXCEPT ![p] =
                 [@ EXCEPT !.pc = "done", !.status = 500,
                           !.detail = "Internal Server Error",
                           !.touched = @ \cup {"cache"}]]
    /\ UNCHANGED <<now, adv, authVars, cache, tokens, dec, contactVars>>

CacheDownNext ==
    \/ \E d \in {1, Seconds(CACHE_TTL_SECONDS)} : Advance(d)
    \/ \E p \in GProcs, tok \in Presentable : GcuDecode(p, tok)
    \/ \E p \in GProcs : GcuCacheGet(p)
    \/ \E p \in GProcs : GcuDbGet(p)
    \/ \E p \in GProcs : GcuCacheSet(p)
    \/ \E p \in GProcs : GcuCacheExpire(p)
    \/ \E p \in GProcs : GcuCacheDown(p)

SpecCacheDown == RoleInit /\ [][CacheDownNext]_vars

\* ---- accounts: signup, confirmation, password reset, login, identity, avatar ----

\* ann is a verified admin holding a password-reset email; bob has signed up and
\* holds his verification email
AccountInit ==
    /\ now = 0
    /\ adv = 0
    /\ users = {IF u.email = "a@x.io" THEN [u EXCEPT !.role = "admin"] ELSE u :
                  u \in confirm_email(SeedUsers, "a@x.io", 0)}
    /\ nextUid = 3
    /\ mails = <<>>
    /\ sreq = [p \in SProcs |-> IdleSignup]
    /\ lreq = [p \in LProcs |-> IdleLogin]
    /\ alast = NoAccountOp
    /\ cache = [e \in Emails |-> NoEntry]
    /\ tokens = {MailToken(VerificationTask("b@x.io", "bob"), 0),
                 MailToken(ResetTask("a@x.io", "ann",
                              create_password_reset_token([sub |-> "a@x.io"], 0)), 0)}
    /\ dec = NoDecode
    /\ gcu = [p \in GProcs |-> IdleGcu]
    /\ contacts = {}
    /\ nextCid = 1
    /\ creq = [p \in CProcs |-> IdleCreate]
    /\ last = NoLast

\* the access tokens the login responses held by the clients carry
LoginAccessTokens == {t.access_token : t \in UNION {lreq[p].tokens : p \in LProcs}}

AccountNext ==
    \/ Advance(Seconds(CACHE_TTL_SECONDS))
    \/ SignupCheck("s1", [username |-> "cat", email |-> "c@x.io", password |-> "pw1"])
    \/ SignupInsert("s1")
    \/ \E token \in Issued : VerifiedEmail(token)
    \/ \E p \in LProcs, ident \in {"a@x.io", "b@x.io"} : LoginCheck(p, ident, "pw1")
    \/ \E p \in LProcs : LoginCacheSet(p)
    \/ \E p \in LProcs : LoginCacheExpire(p)
    \/ \E p \in GProcs, tok \in LoginAccessTokens : GcuDecode(p, tok)
    \/ \E p \in GProcs : GcuCacheGet(p)
    \/ \E p \in GProcs : GcuDbGet(p)
    \/ \E p \in GProcs : GcuCacheSet(p)
    \/ \E p \in GProcs : GcuCacheExpire(p)
    \/ \E p \in GProcs : GetOwnProfile(p)

SpecAccount == AccountInit /\ [][AccountNext]_vars

\* ---- the cache next to every change of a stored user ----

CacheSourceNext ==
    \/ Advance(Seconds(CACHE_TTL_SECONDS))
    \/ \E token \in Issued : VerifiedEmail(token)
    \/ \E token \in Issued : ResetPassword(token, "pw2", "s2")
    \/ \E p \in LProcs : LoginCheck(p, "a@x.io", "pw1")
    \/ \E p \in LProcs : LoginCacheSet(p)
    \/ \E p \in LProcs : LoginCacheExpire(p)
    \/ \E p \in GProcs, tok \in LoginAccessTokens : GcuDecode(p, tok)
    \/ \E p \in GProcs : GcuCacheGet(p)
    \/ \E p \in GProcs : GcuDbGet(p)
    \/ \E p \in GProcs : GcuCacheSet(p)
    \/ \E p \in GProcs : GcuCacheExpire(p)
    \/ \E p \in GProcs : UpdateAvatar(p, [ok |-> TRUE, version |-> "1"])

SpecCacheSource == AccountInit /\ [][CacheSourceNext]_vars

\* ---- the own profile next to avatar updates and logins ----

ProfileNext ==
    \/ StaleNext
    \/ \E p \in GProcs : GetOwnProfile(p)

SpecProfile == RoleInit /\ [][ProfileNext]_vars

----------------------------------------------------------------------------
(* Properties *)

OtherScopes == Scopes \ {"access_token"}

\* C1: get_current_user resolves an identity only for a token whose scope is
\* access_token; a correctly signed, unexpired token of one of the other three
\* scopes ends in 401 and the request reads neither the cache nor the store.
C1_OnlyAccessScopeResolves ==
    \A p \in GProcs :
        /\ gcu[p].status = 200 => gcu[p].token.scope = "access_token"
        /\ (gcu[p].pc # "idle" /\ gcu[p].token.scope \in OtherScopes)
             => /\ gcu[p].pc = "done"
                /\ gcu[p].status = 401
                /\ gcu[p].user = {}
                /\ gcu[p].touched = {}

C1_Witness ==
    \E p \in GProcs :
        /\ gcu[p].pc = "done"
        /\ gcu[p].token.scope = "refresh_token"
        /\ gcu[p].token.sig = "ok"
        /\ gcu[p].token.sub = "a@x.io"
        /\ ~gcu[p].late
        /\ gcu[p].status = 401

\* the scope each decoder expects
ExpectedScope(fn) ==
    CASE fn = "decode_refresh_token" -> "refresh_token"
      [] fn = "decode_email_token" -> "email_verification"
      [] fn = "decode_password_reset_token" -> "password_reset"
      [] OTHER -> "none"

\* C2: a decoder given a correctly signed, unexpired token of another scope than
\* the one it expects fails with 401 'Invalid scope for token'; it returns the
\* subject only for a token of its own scope.
C2_ScopeMismatchRejected ==
    dec.fn # "none" =>
        /\ (dec.tok.sig = "ok" /\ ~dec.late /\ dec.tok.scope # ExpectedScope(dec.fn))
             => dec.res = Err(401, "Invalid scope for token")
        /\ dec.res.status = 200
             => dec.tok.scope = ExpectedScope(dec.fn) /\ dec.res.email = dec.tok.sub

\* a password-reset token presented to decode_refresh_token in the last minute
\* of its life
C2_Witness ==
    /\ dec.fn = "decode_refresh_token"
    /\ dec.tok.scope = "password_reset"
    /\ dec.tok.sig = "ok"
    /\ dec.tok.exp = now
    /\ ~dec.late
    /\ dec.res.detail = "Invalid scope for token"

\* the lifetime the claim gives each token
ClaimedLifetime(i) ==
    CASE i.fn = "create_access_token" ->
            (IF i.delta.given THEN i.delta.minutes
                              ELSE Minutes(ACCESS_TOKEN_EXPIRE_MINUTES))
      [] i.fn = "create_refresh_token" -> Days(REFRESH_TOKEN_EXPIRE_DAYS)
      [] i.fn = "create_email_token" -> Hours(EMAIL_TOKEN_EXPIRE_HOURS)
      [] i.fn = "create_password_reset_token" ->
            Minutes(PASSWORD_RESET_TOKEN_EXPIRE_MINUTES)

\* every decoder and get_current_user reject a token presented after its exp
ExpiredRejected ==
    /\ (dec.fn # "none" /\ dec.late) => dec.res.status \in {401, 422}
    /\ \A p \in GProcs :
         (gcu[p].pc # "idle" /\ gcu[p].late)
            => gcu[p].pc = "done" /\ gcu[p].status = 401

\* C3: every issued token expires at issue time + its lifetime (for an access
\* token the given expires_delta, 30 minutes when none is given), and a token
\* presented after its expiry is rejected.
C3_ExpiryIsIssuePlusLifetime ==
    /\ \A i \in tokens : i.tok.exp = i.at + ClaimedLifetime(i)
    /\ ExpiredRejected

ByIdOps == {"get_contact_by_id", "update_contact", "delete_contact"}

\* C4: get, update and delete of an existing contact by a user who does not own
\* it answer 404 'Contact not found', exactly as for an id that does not exist
\* and never 403, and leave the stored contacts as they were.
C4_NonOwnerGetsNotFound ==
    [][last'.op \in ByIdOps =>
         /\ \A c \in contacts :
              (c.id = last'.id /\ c.user_id # last'.user)
                 => /\ last'.status = 404
                    /\ last'.detail = "Contact not found"
                    /\ last'.result = {}
                    /\ contacts' = contacts
         /\ (\A c \in contacts : c.id # last'.id)
                 => /\ last'.status = 404
                    /\ last'.detail = "Contact not found"
                    /\ contacts' = contacts
         /\ last'.status # 403]_vars

\* bob asks to delete a contact of ann
C4_Witness ==
    /\ last.op = "delete_contact"
    /\ last.status = 404
    /\ \E c \in contacts : c.id = last.id /\ c.user_id # last.user

\* C5: a created contact belongs to the caller, a contact keeps its owner, and an
\* operation of one user neither returns nor changes nor removes a contact of
\* another user.
C5_PerUserIsolation ==
    [][/\ \A c \in contacts' :
            (\A o \in contacts : o.id # c.id)
               => last'.op = "create_contact" /\ c.user_id = last'.user
       /\ \A o \in contacts, c \in contacts' : o.id = c.id => o.user_id = c.user_id
       /\ \A c \in last'.result : c.user_id = last'.user
       /\ \A o \in contacts : o.user_id # last'.user => o \in contacts']_vars

\* both users hold contacts and one of them lists theirs
C5_Witness ==
    /\ last.op = "get_contacts"
    /\ last.result # {}
    /\ \E c \in contacts : c.user_id # last.user
    /\ \E c \in contacts : c.user_id = last.user

\* the contacts of an owner that carry an email
OwnedWithEmail(rows, owner, email) ==
    {c \in rows : c.user_id = owner /\ c.email = email}

C9_RegisteredEmailStopsAtPreCheck ==
    [][\A p \in SProcs :
         (/\ sreq[p].pc = "idle"
          /\ sreq'[p].pc # "idle"
          /\ get_user_by_email(users, sreq'[p].body.email) # {})
            => /\ sreq'[p].pc = "done"
               /\ sreq'[p].status = 409
               /\ sreq'[p].detail = "User with this email already exists."
               /\ sreq'[p].repoCalls = 0
               /\ users' = users
               /\ mails' = mails]_vars

C9_Witness ==
    \E p \in SProcs :
        /\ sreq[p].pc = "done"
        /\ sreq[p].detail = "User with this email already exists."
        /\ sreq[p].repoCalls = 0
        /\ get_user_by_email(users, sreq[p].body.email) # {}

\* usernames and emails are each unique among the stored users
UsersUnique ==
    \A u, v \in users : (u.username = v.username \/ u.email = v.email) => u = v

LoginStarts(p) ==
    /\ lreq[p].pc \in {"idle", "done"}
    /\ lreq'[p].pc \in {"cache_set", "done"}
    /\ lreq'[p] # lreq[p]

\* the password p' gives is the password of u
RightPassword(p, u) == verify_password(lreq'[p].password, u.hashed_password)

\* C11: a login by a verified user with the right password, by email or by
\* username, goes on to the cache write; when it returns, the cache holds the
\* snapshot read from the store under the user's email with an expiry 15 minutes
\* ahead, and the response holds one access and one refresh token whose subject
\* is the user's email.
C11_LoginCachesAndIssuesTokens ==
    [][\A p \in LProcs :
         /\ (/\ LoginStarts(p)
             /\ \E u \in users :
                  /\ u.verified
                  /\ lreq'[p].ident \in {u.email, u.username}
                  /\ RightPassword(p, u))
               => lreq'[p].pc = "cache_set" /\ lreq'[p].user \subseteq users
         /\ (lreq[p].pc = "cache_expire" /\ lreq'[p].pc = "done")
               => /\ lreq'[p].status = 200
                  /\ \E u \in lreq'[p].user :
                       /\ cache'[u.email] =
                             [val |-> {u}, ttl |-> now + Seconds(CACHE_TTL_SECONDS)]
                       /\ \E r \in lreq'[p].tokens :
                            /\ lreq'[p].tokens = {r}
                            /\ r.access_token.scope = "access_token"
                            /\ r.access_token.sub = u.email
                            /\ r.refresh_token.scope = "refresh_token"
                            /\ r.refresh_token.sub = u.email]_vars

\* C12: a login with a registered identifier and the right password for an
\* unverified account ends in 401 'Email not verified', returns no token and
\* leaves the cache as it was.
C12_UnverifiedLoginRefused ==
    [][\A p \in LProcs :
         (/\ LoginStarts(p)
          /\ \E u \in users :
               /\ ~u.verified
               /\ lreq'[p].ident \in {u.email, u.username}
               /\ RightPassword(p, u))
            => /\ lreq'[p].pc = "done"
               /\ lreq'[p].status = 401
               /\ lreq'[p].detail = "Email not verified"
               /\ lreq'[p].tokens = {}
               /\ cache' = cache]_vars

\* the response part of a login request
LoginResponse(r) == [status |-> r.status, detail |-> r.detail, tokens |-> r.tokens]

\* C13: a login whose password is wrong for every account (or for no account at
\* all) that its identifier names answers 401 'Incorrect email or password',
\* the answer the same request gets from a store without any user.
C13_SameAnswerForAnyFailedCredential ==
    [][\A p \in LProcs :
         (/\ LoginStarts(p)
          /\ \A u \in users :
               lreq'[p].ident \in {u.email, u.username} => ~RightPassword(p, u))
            => /\ lreq'[p].pc = "done"
               /\ LoginResponse(lreq'[p]) =
                     [status |-> 401, detail |-> "Incorrect email or password",
                      tokens |-> {}]
               /\ LET none == login_check({}, lreq'[p].ident, lreq'[p].password)
                  IN  /\ lreq'[p].status = none.status
                      /\ lreq'[p].detail = none.detail
               /\ cache' = cache]_vars

\* a wrong password for the unverified bob, by his username
C13_Witness ==
    \E p \in LProcs :
        /\ lreq[p].pc = "done"
        /\ lreq[p].ident = "bob"
        /\ lreq[p].password = "pw2"
        /\ \E u \in users : u.username = "bob" /\ ~u.verified
        /\ lreq[p].detail = "Incorrect email or password"

\* C14: an identifier with "@" is looked up by email and any other by username,
\* and every verified user who gives the right password with the registered
\* email or with the registered username is the user the login resolves.
C14_EveryUsernameLogsIn ==
    [][\A p \in LProcs :
         LoginStarts(p) =>
            /\ lreq'[p].pc = "cache_set" =>
                  lreq'[p].user =
                     (IF HasAt(lreq'[p].ident)
                      THEN get_user_by_email(users, lreq'[p].ident)
                      ELSE get_user_by_username(users, lreq'[p].ident))
            /\ \A u \in users :
                  (/\ u.verified
                   /\ lreq'[p].ident \in {u.email, u.username}
                   /\ RightPassword(p, u))
                     => lreq'[p].user = {u}]_vars

\* a user row differs from another in nothing but verified and updated_at
SameButVerified(u, v) ==
    [u EXCEPT !.verified = TRUE, !.updated_at = 0] =
    [v EXCEPT !.verified = TRUE, !.updated_at = 0]

\* tokens that verified_email accepts now for a stored user
ValidEmailTokens ==
    {k \in Presentable :
        /\ decode_email_token(k, now).status = 200
        /\ get_user_by_email(users, k.sub) # {}}

\* C15: with a valid email_verification token of an unverified user the first
\* confirm-email call sets verified and answers 'Email confirmed successfully.';
\* a second call with the same token answers 'Your email is already verified.'
\* with the same status and changes no field of any user.
C15_ConfirmEmailIdempotent ==
    /\ [](\A k \in ValidEmailTokens :
            LET first == verified_email(users, k, now)
                second == verified_email(first.rows, k, now)
            IN  /\ (\E u \in users : u.email = k.sub /\ ~u.verified)
                      => /\ first.status = 200
                         /\ first.detail = "Email confirmed successfully."
                         /\ \A u \in users : u.email # k.sub => u \in first.rows
                         /\ \E u \in users, v \in first.rows :
                               /\ u.email = k.sub /\ v.email = k.sub
                               /\ v.verified /\ SameButVerified(u, v)
                               /\ first.rows = (users \ {u}) \cup {v}
                /\ second.status = 200
                /\ second.detail = "Your email is already verified."
                /\ second.rows = first.rows)
    /\ [][(/\ alast'.op = "verified_email"
            /\ (alast' # alast \/ users' # users)
            /\ alast'.token \in ValidEmailTokens)
            => /\ alast'.status = 200
               /\ \/ /\ alast'.detail = "Email confirmed successfully."
                     /\ \E u \in users : u.email = alast'.token.sub /\ ~u.verified
                  \/ /\ alast'.detail = "Your email is already verified."
                     /\ users' = users
               /\ \E v \in users' : v.email = alast'.token.sub /\ v.verified]_vars

\* bob, unverified at first, confirmed and then presented the token again
C15_Witness ==
    /\ alast.op = "verified_email"
    /\ alast.token.sub = "b@x.io"
    /\ alast.token.sig = "ok"
    /\ alast.detail = "Your email is already verified."
    /\ \E u \in users : u.email = "b@x.io" /\ u.verified

\* C18: request_email answers with the message an email without account gets,
\* whatever the state of the account: absent, unverified or verified.
C18_RequestEmailRevealsNothing ==
    [][alast'.op = "request_email"
         => /\ alast'.status = 200
            /\ alast'.detail = request_email({}, alast'.email).detail]_vars

\* a user row differs from another in nothing but hashed_password and updated_at
SameButPassword(u, v) ==
    [u EXCEPT !.hashed_password = hash_password(None, None), !.updated_at = 0] =
    [v EXCEPT !.hashed_password = hash_password(None, None), !.updated_at = 0]

\* a reset-password request finishes in this step
ResetDone ==
    /\ alast'.op = "reset_password"
    /\ (alast' # alast \/ users' # users)

ResetRequested ==
    /\ alast'.op = "request_password_reset"
    /\ (alast' # alast \/ Len(mails') > Len(mails))

\* C17: request-password-reset answers with the message an email without account
\* gets; it schedules one reset email carrying a fresh password_reset token of the
\* user exactly when the user exists, and never writes the store.
C17_ResetRequestRevealsNothing ==
    [][ResetRequested
         => /\ alast'.status = 200
            /\ alast'.detail = request_password_reset({}, alast'.email, now).detail
            /\ users' = users
            /\ IF get_user_by_email(users, alast'.email) = {}
               THEN mails' = mails
               ELSE /\ Len(mails') = Len(mails) + 1
                    /\ SubSeq(mails', 1, Len(mails)) = mails
                    /\ LET task == mails'[Len(mails')]
                       IN  /\ task.task = "send_password_reset_email"
                           /\ task.email = alast'.email
                           /\ task.token.scope = "password_reset"
                           /\ task.token.sub = alast'.email
                           /\ task.token.sig = "ok"
                           /\ task.token.exp =
                                 now + Minutes(PASSWORD_RESET_TOKEN_EXPIRE_MINUTES)]_vars

\* a reset email for ann is scheduled and a request for an unknown email was
\* answered
C17_Witness ==
    /\ alast.op = "request_password_reset"
    /\ alast.email = "c@x.io"
    /\ alast.status = 200
    /\ \E i \in DOMAIN mails : mails[i].email = "a@x.io"

\* C19: update-avatar by a resolved identity whose role is not admin answers 403
\* 'Not enough permissions' and leaves the store unchanged; by an admin identity
\* the gate returns that identity and the handler runs: it answers what the
\* upload and the update give, and on 200 the store holds the new avatar_url
\* for that user and nothing else changed but updated_at.
C19_RoleGate ==
    [][\A p \in GProcs :
         (gcu[p].pc = "done" /\ gcu[p].status = 200 /\ gcu'[p].pc = "idle")
         => LET identity == CHOOSE u \in gcu[p].user : TRUE
            IN  /\ alast'.op = "update_avatar"
                /\ alast'.email = identity.email
                /\ identity.role \notin is_admin
                     => /\ alast'.status = 403
                        /\ alast'.detail = "Not enough permissions"
                        /\ users' = users
                /\ identity.role \in is_admin
                     => /\ RoleAccessService(is_admin, identity).user = {identity}
                        /\ alast'.status \in {200, 400, 404}
                        /\ alast'.status # 200 => users' = users
                        /\ alast'.status = 200
                             => \E u \in users, v \in users', r \in alast'.result :
                                  /\ u.email = identity.email
                                  /\ users' = (users \ {u}) \cup {v}
                                  /\ r = UserResponse(v)
                                  /\ v.avatar_url.kind = "cloudinary"
                                  /\ [v EXCEPT !.avatar_url = u.avatar_url,
                                               !.updated_at = u.updated_at] = u]_vars

\* bob, role user, was refused after ann, admin, replaced her avatar
C19_Witness ==
    /\ alast.op = "update_avatar"
    /\ alast.email = "b@x.io"
    /\ alast.status = 403
    /\ \E u \in users : /\ u.email = "a@x.io"
                        /\ u.role = "admin"
                        /\ u.avatar_url.kind = "cloudinary"
    /\ \E u \in users : /\ u.email = "b@x.io"
                        /\ u.role = "user"
                        /\ u.avatar_url = Gravatar("b@x.io")

\* C20: after a successful signup the returned profile has the fields id,
\* username, email, avatar_url and created_at of the stored row and no other, so
\* neither password nor hashed_password; the row is stored unverified, with role
\* user and with a bcrypt hash that verifies the submitted password.
C20_SignupProfileHidesPassword ==
    \A p \in SProcs :
       sreq[p].status = 201
       => \E row \in sreq[p].user, prof \in sreq[p].profile :
            /\ row \in users
            /\ DOMAIN prof = {"id", "username", "email", "avatar_url", "created_at"}
            /\ DOMAIN prof \cap {"password", "hashed_password"} = {}
            /\ \A f \in DOMAIN prof : prof[f] = row[f]
            /\ prof.username = sreq[p].body.username
            /\ prof.email = sreq[p].body.email
            /\ row.verified = FALSE
            /\ row.role = "user"
            /\ row.hashed_password.alg = "bcrypt"
            /\ \E salt \in Salts :
                  row.hashed_password = hash_password(sreq[p].body.password, salt)
            /\ verify_password(sreq[p].body.password, row.hashed_password)

\* a signup was answered 201 with a profile
C20_Witness ==
    \E p \in SProcs : /\ sreq[p].status = 201
                      /\ sreq[p].profile # {}
                      /\ sreq[p].user \subseteq users

\* C21: a signup answered 201 commits the user and then schedules one
\* send_verification_email task for that user, which is still waiting when the
\* response is given; a signup answered 409 schedules nothing; the run of a
\* task, delivered or failed, changes neither a signup outcome nor the store.
C21_SignupSchedulesOneMail ==
    [][/\ \A p \in SProcs :
            sreq'[p] # sreq[p]
            => IF sreq'[p].status = 201
               THEN \E row \in sreq'[p].user :
                      /\ row \notin users
                      /\ users' = users \cup {row}
                      /\ mails' = Append(mails, VerificationTask(row.email, row.username))
                      /\ sreq'[p].pc = "done"
               ELSE mails' = mails
       /\ Len(mails') < Len(mails)
            => /\ mails' = Tail(mails)
               /\ users' = users
               /\ sreq' = sreq]_vars

\* a signup was answered 201, its email could not be delivered, and the user is
\* in the store as the response said
C21_Witness ==
    /\ mails = <<>>
    /\ tokens = {}
    /\ \E p \in SProcs : /\ sreq[p].status = 201
                         /\ sreq[p].user \subseteq users
    /\ \E p \in SProcs : sreq[p].status = 409

\* days from 0001-01-01 to a date, by the rules of the Gregorian calendar
LeapsBefore(y) == ((y - 1) \div 4) - ((y - 1) \div 100) + ((y - 1) \div 400)
DaysBeforeMonth == <<0, 31, 59, 90, 120, 151, 181, 212, 243, 273, 304, 334>>
DayNumber(d) ==
    365 * (d.year - 1) + LeapsBefore(d.year) + DaysBeforeMonth[d.month] + d.day
      + (IF d.month > 2 /\ IsLeap(d.year) THEN 1 ELSE 0)

\* some date with the (month, day) of the birthday is today + 0 .. today + 6
InWindow(birthday, today) ==
    \E y \in {today.year, today.year + 1} :
       /\ birthday.day <= DaysInMonth(y, birthday.month)
       /\ DayNumber([year |-> y, month |-> birthday.month, day |-> birthday.day])
            - DayNumber(today) \in 0..6

\* a birthday query is answered in this step
BirthdayQuery ==
    /\ now' = now
    /\ last'.op = "get_upcoming_birthdays"

\* C22: the birthday query returns exactly the caller's contacts with a birthday
\* whose (month, day) is that of one of the dates today + 0 .. today + 6, today
\* being the day the clock shows, whatever the year of birth and also across
\* the turn of the year.
C22_BirthdayWindow ==
    [][BirthdayQuery
         => /\ DayNumber(Today(now)) - DayNumber(Epoch) = now \div Days(1)
            /\ last'.status = 200
            /\ last'.result =
                 {c \in contacts : /\ c.user_id = last'.user
                                   /\ c.birthday # NoDate
                                   /\ InWindow(c.birthday, Today(now))}]_vars

\* on a day of December the query returned a contact born on a day of January
C22_Witness ==
    /\ last.op = "get_upcoming_birthdays"
    /\ Today(now).month = 12
    /\ \E c \in last.result : c.birthday.month = 1

\* today is one of Dec 24 .. Dec 30
Dec24ToDec30(today) == today.month = 12 /\ today.day \in 24..30
\* today is one of Dec 27 .. Jan 2
Dec27ToJan2(today) ==
    \/ today.month = 12 /\ today.day \in 27..31
    \/ today.month = 1 /\ today.day \in 1..2

\* the caller's contacts born on Dec 30
BornDec30(user_id) ==
    {c \in contacts : /\ c.user_id = user_id
                      /\ c.birthday # NoDate
                      /\ c.birthday.month = 12
                      /\ c.birthday.day = 30}

\* C23 (as the code has it): a contact born on Dec 30 is in the result exactly
\* when today is one of Dec 24 .. Dec 30, in every year; the query changes
\* nothing, and the same query in the state it leaves gives the same result.
C23_Dec30FromDec24ToDec30 ==
    [][BirthdayQuery
         => /\ \A c \in BornDec30(last'.user) :
                  c \in last'.result <=> Dec24ToDec30(Today(now))
            /\ contacts' = contacts
            /\ \A user \in users :
                  user.id = last'.user
                  => get_upcoming_birthdays(contacts', user, Today(now')) = last'.result]_vars

\* ann asked on a Dec 24 and got her contact born on Dec 30
C23_Witness ==
    /\ last.op = "get_upcoming_birthdays"
    /\ Today(now).month = 12
    /\ Today(now).day = 24
    /\ \E c \in last.result : c.birthday.month = 12 /\ c.birthday.day = 30

\* C23 (as claimed): a contact born on Dec 30 is in the result whenever today is
\* one of Dec 27 .. Jan 2.
C23_Dec30FromDec27ToJan2 ==
    [][(BirthdayQuery /\ Dec27ToJan2(Today(now)))
         => \A c \in BornDec30(last'.user) : c \in last'.result]_vars

\* an update_contact is answered 200 in this step
Updated ==
    /\ last'.op = "update_contact"
    /\ last'.status = 200
    /\ (last' # last \/ contacts' # contacts)

\* the user with an id
Caller(user_id) == {u \in users : u.id = user_id}

\* C24: a successful update_contact gives each field the body sets the value of
\* the body and leaves every other field, id, owner and created_at as they were;
\* no other contact changes, and get_contact_by_id afterwards returns that row.
C24_PartialUpdate ==
    [][Updated
         => \A user \in Caller(last'.user), body \in UpdateBodies :
              UpdateContact(user, last'.id, body)
              => \E old \in contacts, new \in contacts' :
              /\ old.id = last'.id /\ new.id = last'.id
              /\ old.user_id = user.id /\ new.user_id = user.id
              /\ new.created_at = old.created_at
              /\ \A f \in FieldNames :
                    new[f] = IF f \in body.fields THEN body[f] ELSE old[f]
              /\ contacts' \ {new} = contacts \ {old}
              /\ last'.result = {new}
              /\ get_contact_by_id(contacts', last'.id, user) = {new}]_vars

\* ann's contact has a new first name and a birthday, its email and last name
\* are those it was created with
C24_Witness ==
    \E c \in contacts :
       /\ c.id = 1
       /\ c.first_name = <<"B", "o">>
       /\ c.birthday # NoDate
       /\ c.email = <<"a", "@", "x">>
       /\ c.last_name = <<"L", "i">>
       /\ c.updated_at > c.created_at
       /\ last.op = "update_contact" /\ last.status = 200 /\ last.id = 1

\* the body gives some field a value the row does not have
ChangesRow(old, body) == \E f \in body.fields : body[f] # old[f]

\* C25 (as the code has it): a successful update_contact that changes a value
\* sets updated_at to the time of the update, later than the old value whenever
\* the clock has advanced since; an update that changes no value (no field, or
\* the values the row has) leaves updated_at as it was; created_at never changes.
C25_UpdatedAtOnChange ==
    [][Updated
         => \A user \in Caller(last'.user), body \in UpdateBodies :
              UpdateContact(user, last'.id, body)
              => \E old \in contacts, new \in contacts' :
              /\ old.id = last'.id /\ new.id = last'.id
              /\ new.created_at = old.created_at
              /\ old.updated_at <= now
              /\ IF ChangesRow(old, body)
                 THEN /\ new.updated_at = now
                      /\ now > old.updated_at => new.updated_at > old.updated_at
                 ELSE new.updated_at = old.updated_at]_vars

\* a contact written at time 0 was updated later without a change and kept its
\* updated_at
C25_Witness ==
    /\ last.op = "update_contact"
    /\ last.status = 200
    /\ now > 0
    /\ \E c \in last.result : c.updated_at = 0 /\ c \in contacts

\* C25 (as claimed): every successful update_contact made after the clock has
\* advanced past the row's updated_at strictly increases updated_at.
C25_UpdatedAtAlwaysIncreases ==
    [][Updated
         => \A user \in Caller(last'.user), body \in UpdateBodies :
              UpdateContact(user, last'.id, body)
              => \E old \in contacts, new \in contacts' :
              /\ old.id = last'.id /\ new.id = last'.id
              /\ new.created_at = old.created_at
              /\ now > old.updated_at => new.updated_at > old.updated_at]_vars

\* C26: a successful delete_contact removes exactly the caller's contact with
\* that id, after which the owner can create a contact with its email; an id
\* that is gone is never given to a new contact, and get_contact_by_id,
\* update_contact and delete_contact on an id the caller holds no contact for
\* answer 404 'Contact not found' and change nothing.
C26_DeletedStaysGone ==
    [][/\ \A c \in contacts : c.id < nextCid
       /\ \A c \in contacts' : (\E o \in contacts : o.id = c.id) \/ c.id = nextCid
       /\ (last'.op = "delete_contact" /\ last'.status = 200 /\ last' # last)
            => \E d \in contacts, user \in Caller(last'.user) :
                 /\ d.id = last'.id
                 /\ d.user_id = user.id
                 /\ last'.result = {d}
                 /\ contacts' = contacts \ {d}
                 /\ get_contact_by_id(contacts', d.id, user) = {}
                 /\ CreateOutcome(contacts', nextCid', user,
                                  BirthdayBody(d.email, NoDate), now').resp.status = 201
       /\ (last'.op \in ByIdOps /\ last' # last)
            => \A user \in Caller(last'.user) :
                 get_contact_by_id(contacts, last'.id, user) = {}
                 => /\ last'.status = 404
                    /\ last'.detail = "Contact not found"
                    /\ contacts' = contacts]_vars

\* ann deleted her contact 1 and then created a contact with its email; a later
\* request for id 1 was answered 404
C26_Witness ==
    /\ \A c \in contacts : c.id # 1
    /\ \E c \in contacts : /\ c.id = 3
                           /\ c.user_id = 1
                           /\ c.email = <<"a", "@", "x">>
    /\ last.op \in ByIdOps
    /\ last.id = 1
    /\ last.user = 1
    /\ last.status = 404

\* ---- C27 ----

\* value occurs in column as a substring, letter case ignored
Contains(column, value) ==
    /\ column # NoneStr
    /\ \E i \in 0..(Len(column) - Len(value)) :
          \A j \in 1..Len(value) : Lower(column[i + j]) = Lower(value[j])

\* the caller's contacts that contain every supplied filter value
SubstringMatches(rows, q, user) ==
    {c \in rows :
        /\ c.user_id = user.id
        /\ (Truthy(q.first_name) => Contains(c.first_name, q.first_name))
        /\ (Truthy(q.last_name) => Contains(c.last_name, q.last_name))
        /\ (Truthy(q.email) => Contains(c.email, q.email))}

\* the request q by user explains the get_contacts step
Listed(user, q) ==
    GetContacts(user, q.skip, q.limit, q.first_name, q.last_name, q.email)

DecoderOutcome(fn, token, t) ==
    CASE fn = "decode_refresh_token" -> decode_refresh_token(token, t)
      [] fn = "decode_email_token" -> decode_email_token(token, t)
      [] fn = "decode_password_reset_token" -> decode_password_reset_token(token, t)
      [] OTHER -> DecodeAccess(token, t)

\* the three decoders report a wrong scope differently from a bad signature
DecodersTellScopeFromSignature ==
    (dec.fn # "none" /\ dec.tok.sig = "ok" /\ ~dec.late
        /\ dec.tok.scope # ExpectedScope(dec.fn))
      => dec.res # DecoderOutcome(dec.fn, Tamper(dec.tok), now)

\* get_current_user reports a wrong scope differently from a bad signature
AccessCheckTellsScopeFromSignature ==
    \A p \in GProcs :
        (gcu[p].pc = "done" /\ gcu[p].token.sig = "ok" /\ ~gcu[p].late
            /\ gcu[p].token.scope # "access_token")
          => <<gcu[p].status, gcu[p].detail>>
               # <<DecodeAccess(Tamper(gcu[p].token), now).status,
                   DecodeAccess(Tamper(gcu[p].token), now).detail>>

\* C28: on every token-accepting path a correctly signed, unexpired token of the
\* wrong scope is reported with an outcome (status and detail) different from the
\* outcome for a badly signed or expired token
C28_ScopeMismatchDistinguishable ==
    DecodersTellScopeFromSignature /\ AccessCheckTellsScopeFromSignature

\* ---- C29 ----

\* what an identity resolution that starts now and meets no other request returns
\* from the cache: nothing (it reads the store) or the cached snapshot
ServedFromCache(email) == CacheGet(cache, email, now)

\* C29: later than 15 minutes after the last change of a user's store record,
\* identity resolution returns the changed record: the cache holds no live entry
\* for the user, or a snapshot equal to the store record
C29_StalenessBoundedByTTL ==
    \A u \in users :
        now > u.updated_at + Seconds(CACHE_TTL_SECONDS)
          => ServedFromCache(u.email) \in {{}, {u}}

\* ---- C30 ----

\* C30: when a cache call of get_current_user fails for a valid access token of an
\* existing user, the request is not aborted: it does not end with an error
C30_CacheDownDegradesToStore ==
    [][\A p \in GProcs :
          (GcuCacheDown(p) /\ get_user_by_email(users, gcu[p].email) # {})
            => ~(gcu'[p].pc = "done" /\ gcu'[p].status # 200)]_vars

\* ---- C31 ----

\* the step of request p that looks the key up and finds a live entry
CacheHit(p) ==
    /\ gcu[p].pc = "cache_get"
    /\ gcu'[p] # gcu[p]
    /\ CacheGet(cache, gcu[p].email, now) # {}

\* C31: on a cache hit get_current_user returns the cached snapshot, reads no row
\* from the store and leaves the cache, the entry's expiry included, as it was
C31_CacheHitReturnsSnapshot ==
    [][\A p \in GProcs :
          CacheHit(p) =>
              /\ gcu'[p].pc = "done"
              /\ gcu'[p].status = 200
              /\ gcu'[p].user = CacheGet(cache, gcu[p].email, now)
              /\ gcu'[p].touched = {"cache"}
              /\ cache' = cache
              /\ users' = users]_vars

\* a request answered from the cache with a snapshot the store no longer holds
C31_Witness ==
    \E p \in GProcs :
        /\ gcu[p].pc = "done"
        /\ gcu[p].status = 200
        /\ gcu[p].touched = {"cache"}
        /\ gcu[p].user # {}
        /\ gcu[p].user = cache[gcu[p].email].val
        /\ gcu[p].user # get_user_by_email(users, gcu[p].email)

\* ---- C32 ----

\* the step in which request p, after a miss and a store hit, returns
MissReturns(p) == gcu[p].pc = "cache_expire" /\ gcu'[p].pc = "done"

\* the step in which request p, after a miss, finds no user in the store
MissNotFound(p) ==
    /\ gcu[p].pc = "db_get"
    /\ gcu'[p] # gcu[p]
    /\ get_user_by_email(users, gcu[p].email) = {}

\* C32: after a cache miss get_current_user reads the user from the store; if found,
\* at its return the cache holds the record it read with an expiry 15 minutes ahead;
\* if not found it answers 401 'Could not validate credentials', as for a bad token,
\* and writes nothing to the cache
C32_MissRepopulates ==
    [][\A p \in GProcs :
          /\ MissReturns(p) =>
                /\ gcu'[p].status = 200
                /\ gcu'[p].user = gcu[p].user
                /\ "store" \in gcu[p].touched
                /\ cache'[gcu[p].email] =
                      [val |-> gcu[p].user, ttl |-> now + Seconds(CACHE_TTL_SECONDS)]
          /\ MissNotFound(p) =>
                /\ gcu'[p].pc = "done"
                /\ <<gcu'[p].status, gcu'[p].detail>>
                     = <<DecodeAccess(Tamper(gcu[p].token), now).status,
                         DecodeAccess(Tamper(gcu[p].token), now).detail>>
                /\ cache' = cache]_vars

\* ---- C33 ----

\* C33: in every state every cache entry carries an expiry, and one that is no
\* later than 15 minutes after its write (so no later than 15 minutes from now)
C33_EveryEntryHasTTL ==
    \A e \in Emails :
        cache[e].val # {} =>
            /\ cache[e].ttl # NoTTL
            /\ cache[e].ttl <= now + Seconds(CACHE_TTL_SECONDS)

\* ---- C34 ----

\* the store's record for an email
Store(e) == get_user_by_email(users, e)

\* the snapshots of that user the requests in flight hold
InFlight(e) ==
    {u \in UNION ({gcu[p].user : p \in GProcs} \cup {lreq[p].user : p \in LProcs}) :
        u.email = e}

\* a snapshot is a row of the same user, not newer than the store's row
EarlierRowOf(snapshot, row) ==
    /\ snapshot.id = row.id
    /\ snapshot.email = row.email
    /\ snapshot.username = row.username
    /\ snapshot.created_at = row.created_at
    /\ snapshot.updated_at <= row.updated_at
    /\ snapshot.updated_at = row.updated_at => snapshot.verified = row.verified

Answers(p, op) ==
    /\ gcu[p].pc = "done"
    /\ gcu[p].status = 200
    /\ gcu'[p].pc = "idle"
    /\ alast'.op = op

\* the step is a cache write of a login or of an identity resolution after a miss
CacheWriterStep ==
    \/ \E p \in LProcs : lreq[p].pc \in {"cache_set", "cache_expire"} /\ lreq'[p] # lreq[p]
    \/ \E p \in GProcs : gcu[p].pc \in {"cache_set", "cache_expire"} /\ gcu'[p] # gcu[p]

\* C35: a successful avatar update writes the new avatar_url to the store and returns
\* the updated record, and leaves the cache as it was; while the entry is live identity
\* resolution returns its snapshot, so get-own-profile shows the avatar_url of that
\* snapshot; the entry changes only by expiry, a login or a resolution after a miss
C35_AvatarUpdateLeavesCache ==
    [][/\ \A p \in GProcs :
            /\ (Answers(p, "update_avatar") /\ alast'.status = 200) =>
                  /\ cache' = cache
                  /\ alast'.result = {UserResponse(u) :
                                      u \in get_user_by_email(users', gcu[p].email)}
                  /\ \A u \in get_user_by_email(users', gcu[p].email) :
                        u.avatar_url \in {upload_file(u.username, up.version) :
                                            up \in Uploads}
            /\ Answers(p, "get_own_profile") =>
                  alast'.result = {UserResponse(u) : u \in gcu[p].user}
            /\ CacheHit(p) => gcu'[p].user = cache[gcu[p].email].val
       /\ cache' # cache => CacheWriterStep]_vars

\* ann's own profile, answered from the live cache entry, shows the avatar she has
\* already replaced in the store
C35_Witness ==
    /\ alast.op = "get_own_profile"
    /\ alast.status = 200
    /\ alast.email = "a@x.io"
    /\ Live(cache["a@x.io"], now)
    /\ \E r \in alast.result, u \in Store("a@x.io"), snapshot \in cache["a@x.io"].val :
          /\ r.avatar_url # u.avatar_url
          /\ r.avatar_url = snapshot.avatar_url
          /\ u.avatar_url.kind = "cloudinary"

\* ---- C36 ----

\* C36: every successful get_current_user has attached the resolved user to
\* request.state.user, so the rate-limit key of the request is the user's id
C36_LimiterKeyIsUserId ==
    \A p \in GProcs :
        (gcu[p].pc = "done" /\ gcu[p].status = 200) =>
            /\ gcu[p].stateUser = gcu[p].user
            /\ get_limiter_key(gcu[p]) = {u.id : u \in gcu[p].user}

\* ---- C37 ----

\* C37: every cached snapshot, every identity get_current_user returns for an access
\* token of a login response, and every user a login response was issued to has
\* verified = TRUE
C37_OnlyVerifiedIdentities ==
    /\ \A e \in Emails : \A snapshot \in cache[e].val : snapshot.verified
    /\ \A p \in GProcs :
          (gcu[p].pc = "done" /\ gcu[p].status = 200) => \A u \in gcu[p].user : u.verified
    /\ \A p \in LProcs : lreq[p].tokens # {} => \A u \in lreq[p].user : u.verified
    /\ \A tok \in LoginAccessTokens : \A u \in Store(tok.sub) : u.verified

\* bob, who confirmed his email and logged in, is resolved from the store after his
\* cache entry expired, while cat has signed up and is still unverified
C37_Witness ==
    /\ \E p \in GProcs :
          /\ gcu[p].pc = "done"
          /\ gcu[p].status = 200
          /\ gcu[p].email = "b@x.io"
          /\ "store" \in gcu[p].touched
    /\ \E u \in users : u.email = "c@x.io" /\ ~u.verified

\* ---- C38 ----

\* the update of the caller's contact contact_id sets its email to one that another
\* contact of the caller carries
SetsTakenEmail(user, contact_id, body) ==
    /\ "email" \in body.fields
    /\ \E old \in contacts, other \in contacts :
          /\ old.id = contact_id /\ old.user_id = user.id
          /\ other.id # contact_id /\ other.user_id = user.id
          /\ other.email = body.email

\* C38: an update_contact that sets a contact's email to one of another contact of
\* the same owner is rejected by the store and answered with the unhandled store
\* error (500, not 409 Conflict); the stored contacts keep their values, and in every
\* state no owner holds two contacts with one email
C38_UpdateKeepsEmailUnique ==
    [][/\ (last'.op = "update_contact" /\ (last' # last \/ contacts' # contacts))
            => \A user \in Caller(last'.user), body \in UpdateBodies :
                  (SetsTakenEmail(user, last'.id, body)
                      /\ UpdateContact(user, last'.id, body))
                    => /\ last'.status = 500
                       /\ last'.result = {}
                       /\ contacts' = contacts
       /\ \A c1 \in contacts', c2 \in contacts' :
            (c1.user_id = c2.user_id /\ c1.email = c2.email) => c1 = c2]_vars

\* ann holds two contacts with different emails, and her update of one of them has
\* just been answered with the store error
C38_Witness ==
    /\ last.op = "update_contact"
    /\ last.status = 500
    /\ last.user = 1
    /\ \E c1 \in contacts, c2 \in contacts :
          /\ c1.id = last.id /\ c1.user_id = 1
          /\ c2.id # c1.id /\ c2.user_id = 1
          /\ c1.email # c2.email

\* ---- C39 ----

\* the calendar years the dates of the scenario cover in full
FullYears == {2023, 2024}

\* the days of year y
YearDays(y) == {DateTable[i] : i \in {k \in 1..Len(DateTable) : DateTable[k].year = y}}

\* on some day of year y the query of the owner returns contact c
ShownInYear(c, y) ==
    \E today \in YearDays(y), user \in Caller(c.user_id) :
        c \in get_upcoming_birthdays(contacts, user, today)

\* every birthday but Feb 29 is shown in every year, Feb 29 in leap years
ShownWhereTheDateExists ==
    \A c \in contacts : c.birthday # NoDate =>
        \A y \in FullYears :
            c.birthday.day <= DaysInMonth(y, c.birthday.month) => ShownInYear(c, y)

\* C39: for every owned contact with a birthday and every calendar year there is a
\* 'today' in that year for which get_upcoming_birthdays returns the contact, also
\* for a birthday on Feb 29 in a year that is not a leap year
C39_EveryBirthdayShownEachYear ==
    \A c \in contacts : c.birthday # NoDate =>
        \A y \in FullYears : ShownInYear(c, y)

====
